---- MODULE Spec2Model ----
(***************************************************************************)
(* Model of the batched health-checking pipeline of v2ray-finder:          *)
(*   V2RayServerFinder.get_servers_with_health      (core.py)              *)
(*   HealthChecker.check_servers_batch / check_server_health               *)
(*   filter_healthy_servers, sort_by_quality, ServerHealth.quality_score   *)
(*                                                  (health_checker.py)    *)
(* Scores and thresholds are kept in hundredths of a point so that the     *)
(* latency formula stays in the integers.                                  *)
(* Specifications:                                                         *)
(*   Spec, SpecScenario  the pipeline and its stop flag                    *)
(*   SpecLive            one call under a fair event loop                  *)
(*   SpecItem            one check_server_health coroutine, step by step   *)
(*   SpecScore           ServerHealth.quality_score on its own             *)
(*   SpecFilter          filter_healthy_servers on its own                 *)
(*   SpecItemFair        the same coroutine under a fair event loop        *)
(*   SpecParse           validate_config on vless:// and trojan:// texts   *)
(*   SpecDiscover        get_all_servers step by step, then the checks     *)
(*   SpecPrint           print_stats and the top-10 listing of cli.py      *)
(*   SpecCli             the non-interactive main() and its StopController *)
(*   SpecDispatch        the prefix dispatch of validate_config            *)
(*   SpecCache           MemoryCache and CacheManager set/get   (cache.py) *)
(*   SpecCached          a function wrapped by CacheManager.cached         *)
(*   SpecFetch           AsyncFetcher.fetch_many(_async) (async_fetcher.py)*)
(***************************************************************************)
EXTENDS Integers, Sequences, FiniteSets, TLC

\* ------------------------------------------------------------------------
\* Bounds of the model
\* ------------------------------------------------------------------------
MaxServers == 3
MaxBatch == 2
MaxLimit == 2
\* Largest latency (ms) of the dense range the score is computed over.
MaxLatency == 700
\* Longest list handed to filter_healthy_servers on its own.
MaxResults == 3
\* Longest config text (after its scheme) handed to validate_config on its own.
MaxText == 5
\* Longest line typed at the CLI's stop listener.
MaxLine == 3
\* Last second of the clock a cache is watched over.
MaxTime == 2
\* Number of known sources, and most fetches one GitHub search makes.
MaxSources == 2
MaxFetches == 2

\* Latencies (ms) a successful TCP connect is observed with.
Latencies == {50, 600}
\* Values of min_quality_score the caller passes (hundredths of a point).
MinScores == {0, 5000}

\* What ServerValidator.validate_config makes of a config string:
\*   "invalid"  -> (False, msg, None, None)
\*   "notarget" -> (True, None, None, None) or a falsy host / port
\*   "target"   -> (True, None, host, port) with host and port truthy
Kinds == {"invalid", "notarget", "target"}

None == -1

VARIABLES
    pc,                 \* position of the thread running get_servers_with_health
    stop,               \* V2RayServerFinder._stop_requested (threading.Event)
    health_batch_size,  \* argument of get_servers_with_health
    concurrent_limit,   \* argument concurrent_checks -> HealthChecker.concurrent_limit
    min_quality_score,  \* argument (hundredths)
    filter_unhealthy,   \* argument
    check_health,       \* argument
    servers,            \* list returned by get_all_servers
    i,                  \* loop variable of the batch loop (offset into servers)
    batch,              \* argument of the check_servers call in flight
    task,               \* per item of the batch: position of its coroutine
    results,            \* per item of the batch: what gather collected
    health_results,     \* accumulator of get_servers_with_health
    result_list,        \* value returned by get_servers_with_health
    calls,              \* history: the batches handed to check_servers, in order
    returned,           \* history: the list each completed check_servers call returned
    raised,             \* history: per completed call, the items whose coroutine raised
    interrupted,        \* history: number of the batch a KeyboardInterrupt hit, 0 if none
    stopBatch,          \* history: number of the batch in flight at the first request_stop, 0 if none
    stop_on_return,     \* history: should_stop() at the moment get_servers_with_health returned
    ipc,                \* position of one check_server_health coroutine taken alone
    validation,         \* what validate_config returned to that coroutine
    measured,           \* local latency of check_tcp_connectivity, None before the connect
    tcp,                \* what check_tcp_connectivity returned to it, NoTcp before
    health,             \* the ServerHealth it returned, NoHealth before
    connects,           \* history: number of asyncio.open_connection attempts it made
    connected,          \* history: the connect completed within the timeout
    input,              \* argument of a pure function taken alone
    output,             \* the value that function returned, NotCalled before
    dpc,                \* position of the thread inside get_all_servers
    use_github_search,  \* argument of get_all_servers
    all_servers,        \* accumulator of the get_servers_from_* call in progress
    found,              \* list get_servers_from_known_sources returned
    visited,            \* number of fetches made by the get_servers_from_* call in progress
    ki,                 \* history: the phase a KeyboardInterrupt hit, "none" if none
    mpc,                \* position of the main thread of the CLI (non-interactive)
    lpc,                \* position of the StopListener thread
    active,             \* StopController._active (threading.Event)
    key,                \* history: the last line the listener read
    exit_status,        \* status main() exited with, None while running
    saved,              \* argument of the save_partial_results call, NotCalled if none
    partial_servers,    \* local of main(): the list the fetch returned
    cache,              \* MemoryCache._cache: the entries in insertion order
    now,                \* time.time(), in seconds
    trace,              \* history: the cache operations made, latest last
    fetches             \* per URL of fetch_many_async: the state of its fetch task

vars == <<pc, stop, health_batch_size, concurrent_limit, min_quality_score,
          filter_unhealthy, check_health, servers, i, batch, task, results,
          health_results, result_list, calls, returned, raised, interrupted,
          stopBatch, stop_on_return,
          ipc, validation, measured, tcp, health, connects, connected, input, output,
          dpc, use_github_search, all_servers, found, visited, ki,
          mpc, lpc, active, key, exit_status, saved, partial_servers,
          cache, now, trace, fetches>>

pipeline == <<pc, stop, health_batch_size, concurrent_limit, min_quality_score,
              filter_unhealthy, check_health, servers, i, batch, task, results,
              health_results, result_list, calls, returned, raised, interrupted,
              stopBatch, stop_on_return>>
item == <<ipc, validation, measured, tcp, health, connects, connected>>
pure == <<input, output>>
discovery == <<dpc, use_github_search, all_servers, found, visited, ki>>
cli == <<mpc, lpc, active, key, exit_status, saved, partial_servers>>
store == <<cache, now, trace>>
\* What an operation on the cache or a step of the fetcher never touches.
besides_store == <<pipeline, item, pure, discovery, cli>>
\* What a step of get_servers_with_health never touches.
others == <<item, pure, discovery, cli, store, fetches>>
\* What a step of one check_server_health coroutine never touches.
besides_item == <<pipeline, pure, discovery, cli, store, fetches>>
\* What a step of get_all_servers never touches.
besides_discovery == <<item, pure, cli, store, fetches>>
\* What applying a pure function never touches.
besides_pure == <<pipeline, item, discovery, cli, store, fetches>>

\* What a step of the CLI's main() or of its listener never touches.
besides_cli == <<item, pure, discovery, store, fetches,
                 pc, health_batch_size, concurrent_limit, min_quality_score,
                 filter_unhealthy, check_health, servers, i, batch, task, results,
                 health_results, calls, returned, raised, interrupted, stopBatch,
                 stop_on_return>>

params == <<health_batch_size, concurrent_limit, min_quality_score,
            filter_unhealthy, check_health>>
inflight == <<batch, task, results>>
history == <<calls, returned, raised, interrupted, stopBatch, stop_on_return>>

\* ------------------------------------------------------------------------
\* Helpers
\* ------------------------------------------------------------------------
Min(a, b) == IF a < b THEN a ELSE b
Max(a, b) == IF a < b THEN b ELSE a

Range(s) == {s[k] : k \in 1..Len(s)}

RECURSIVE Flatten(_)
Flatten(ss) == IF ss = <<>> THEN <<>> ELSE Head(ss) \o Flatten(Tail(ss))

\* A server config string: distinct ids are distinct strings.
Config(id, kind) == [id |-> id, kind |-> kind]

\* No deduplication at all.
DedupNothing(xs) == xs

\* list(dict.fromkeys(xs)): first occurrence of each element, in order.
RECURSIVE Dedup(_)
Dedup(xs) ==
    IF xs = <<>> THEN <<>>
    ELSE LET init == Dedup(SubSeq(xs, 1, Len(xs) - 1))
             last == xs[Len(xs)]
         IN  IF last \in Range(init) THEN init ELSE Append(init, last)

\* ------------------------------------------------------------------------
\* health_checker.py: ServerHealth and its derived score
\* ------------------------------------------------------------------------
ServerHealth(config, status, latency, error, validation_error) ==
    [config |-> config, status |-> status, latency_ms |-> latency,
     error |-> error, validation_error |-> validation_error]

\* A score without the floor of 30 points.
quality_score_without_floor(h) ==
    IF h.status = "invalid" THEN 0
    ELSE IF h.status = "unreachable" THEN 1000
    ELSE IF h.latency_ms = None THEN 5000
    ELSE IF h.latency_ms < 100 THEN 10000
    ELSE IF h.latency_ms < 300 THEN 10000 - (h.latency_ms - 100) * 20
    ELSE 10000 - h.latency_ms * 15

\* A score that rates an Unreachable record at 40 points.
quality_score_unreachable_at_40(h) ==
    IF h.status = "invalid" THEN 0
    ELSE IF h.status = "unreachable" THEN 4000
    ELSE IF h.latency_ms = None THEN 5000
    ELSE IF h.latency_ms < 100 THEN 10000
    ELSE IF h.latency_ms < 300 THEN 10000 - (h.latency_ms - 100) * 20
    ELSE Max(3000, 10000 - h.latency_ms * 15)

\* ServerHealth.quality_score, in hundredths of a point.
quality_score(h) ==
    IF h.status = "invalid" THEN 0
    ELSE IF h.status = "unreachable" THEN 1000
    ELSE IF h.latency_ms = None THEN 5000
    ELSE IF h.latency_ms < 100 THEN 10000
    ELSE IF h.latency_ms < 300 THEN 10000 - (h.latency_ms - 100) * 20
    ELSE Max(3000, 10000 - h.latency_ms * 15)

\* A filter that judges Invalid records by their score like the others.
RECURSIVE filter_by_score_only(_, _, _)
filter_by_score_only(hs, minq, exclude_unreachable) ==
    IF hs = <<>> THEN <<>>
    ELSE LET h == Head(hs)
             rest == filter_by_score_only(Tail(hs), minq, exclude_unreachable)
         IN  IF exclude_unreachable /\ h.status = "unreachable" THEN rest
             ELSE IF quality_score(h) >= minq THEN <<h>> \o rest
             ELSE rest

\* A filter whose threshold is exclusive.
RECURSIVE filter_above_threshold(_, _, _)
filter_above_threshold(hs, minq, exclude_unreachable) ==
    IF hs = <<>> THEN <<>>
    ELSE LET h == Head(hs)
             rest == filter_above_threshold(Tail(hs), minq, exclude_unreachable)
         IN  IF h.status = "invalid" THEN rest
             ELSE IF exclude_unreachable /\ h.status = "unreachable" THEN rest
             ELSE IF quality_score(h) > minq THEN <<h>> \o rest
             ELSE rest

\* filter_healthy_servers(health_results, min_quality_score, exclude_unreachable)
RECURSIVE filter_healthy_servers(_, _, _)
filter_healthy_servers(hs, minq, exclude_unreachable) ==
    IF hs = <<>> THEN <<>>
    ELSE LET h == Head(hs)
             rest == filter_healthy_servers(Tail(hs), minq, exclude_unreachable)
         IN  IF h.status = "invalid" THEN rest
             ELSE IF exclude_unreachable /\ h.status = "unreachable" THEN rest
             ELSE IF quality_score(h) >= minq THEN <<h>> \o rest
             ELSE rest

\* sorted(..., key=quality_score, reverse=True): stable, best first.
RECURSIVE InsertDescending(_, _)
InsertDescending(sorted, h) ==
    IF sorted = <<>> THEN <<h>>
    ELSE IF quality_score(Head(sorted)) >= quality_score(h)
         THEN <<Head(sorted)>> \o InsertDescending(Tail(sorted), h)
         ELSE <<h>> \o sorted

\* A sort that leaves the list as it is.
sort_not_at_all(hs) == hs

RECURSIVE sort_by_quality(_)
sort_by_quality(hs) ==
    IF hs = <<>> THEN <<>>
    ELSE InsertDescending(sort_by_quality(SubSeq(hs, 1, Len(hs) - 1)), hs[Len(hs)])

\* What one coroutine of the batch hands to gather: a ServerHealth or an exception.
Gathered(ok, h) == [ok |-> ok, health |-> h]
NoHealth == ServerHealth(Config(0, "invalid"), "none", None, "none", "none")
Pending == Gathered(FALSE, NoHealth)

\* A gather without return_exceptions: one failing item loses the batch.
all_or_nothing(rs) ==
    IF \E k \in DOMAIN rs : ~rs[k].ok THEN <<>> ELSE [k \in DOMAIN rs |-> rs[k].health]

\* The loop over results at the end of check_servers_batch: keep the ServerHealth
\* instances in input order, drop the exceptions.
RECURSIVE health_of(_)
health_of(rs) ==
    IF rs = <<>> THEN <<>>
    ELSE IF Head(rs).ok THEN <<Head(rs).health>> \o health_of(Tail(rs))
         ELSE health_of(Tail(rs))

\* Records returned when no health check is made.
Unchecked(ss) == [k \in 1..Len(ss) |-> [config |-> ss[k], health_checked |-> FALSE]]

\* The dict built from a ServerHealth in the conversion loop.
ToDict(h) ==
    [config |-> h.config, health_checked |-> TRUE, health_status |-> h.status,
     latency_ms |-> h.latency_ms, quality_score |-> quality_score(h),
     error |-> h.error, validation_error |-> h.validation_error]

Convert(hs) == [k \in 1..Len(hs) |-> ToDict(hs[k])]

\* A limiter whose slot stays taken when the item's check raised.
HoldersLeakingOnRaise ==
    {j \in DOMAIN task : task[j] = "probing" \/ (task[j] = "done" /\ ~results[j].ok)}

\* The items of the batch in flight that hold a limiter slot across a suspension.
Holders == {j \in DOMAIN task : task[j] = "probing"}

\* validate_config's 4-tuple (is_valid, error_msg, host, port).
Validation(is_valid, error_msg, host, port) ==
    [is_valid |-> is_valid, error_msg |-> error_msg, host |-> host, port |-> port]
\* check_tcp_connectivity's 3-tuple (is_reachable, latency_ms, error_msg).
Tcp(is_reachable, latency_ms, error_msg) ==
    [is_reachable |-> is_reachable, latency_ms |-> latency_ms, error_msg |-> error_msg]
NoValidation == Validation(FALSE, "none", "none", None)
NoTcp == Tcp(FALSE, None, "not called")
\* What a function taken alone has returned.
Returned(value) == [called |-> TRUE, value |-> value]
NotCalled == [called |-> FALSE, value |-> <<>>]

\* No check_server_health coroutine is looked at on its own.
ItemIdle ==
    /\ ipc = "idle"
    /\ validation = NoValidation
    /\ measured = None
    /\ tcp = NoTcp
    /\ health = NoHealth
    /\ connects = 0
    /\ connected = FALSE

\* No pure function is looked at on its own.
PureIdle ==
    /\ input = <<>>
    /\ output = NotCalled

\* get_all_servers is not looked at step by step.
DiscoveryIdle ==
    /\ dpc = "idle"
    /\ use_github_search = FALSE
    /\ all_servers = <<>>
    /\ found = <<>>
    /\ visited = 0
    /\ ki = "none"

\* No CLI process is running.
CliIdle ==
    /\ mpc = "idle"
    /\ lpc = "none"
    /\ active = FALSE
    /\ key = <<>>
    /\ exit_status = None
    /\ saved = NotCalled
    /\ partial_servers = <<>>

\* No cache and no fetcher is looked at.
StoreIdle ==
    /\ cache = <<>>
    /\ now = 0
    /\ trace = <<>>
    /\ fetches = <<>>

\* get_servers_with_health is not running and has never run.
PipelineIdle ==
    /\ pc = "idle"
    /\ stop = FALSE
    /\ health_batch_size = 1
    /\ concurrent_limit = 1
    /\ min_quality_score = 0
    /\ filter_unhealthy = FALSE
    /\ check_health = TRUE
    /\ servers = <<>>
    /\ i = 0
    /\ batch = <<>>
    /\ task = <<>>
    /\ results = <<>>
    /\ health_results = <<>>
    /\ result_list = <<>>
    /\ calls = <<>>
    /\ returned = <<>>
    /\ raised = <<>>
    /\ interrupted = 0
    /\ stopBatch = 0
    /\ stop_on_return = FALSE

\* ------------------------------------------------------------------------
\* Initial state: a finder right after construction, no call in progress
\* ------------------------------------------------------------------------
Init ==
    /\ DiscoveryIdle
    /\ CliIdle
    /\ StoreIdle
    /\ PipelineIdle
    /\ ItemIdle
    /\ PureIdle

\* ------------------------------------------------------------------------
\* The cancellation token
\* ------------------------------------------------------------------------
\* request_stop(), from any thread, at any time.
RequestStop ==
    /\ stop' = TRUE
    /\ stopBatch' = IF pc = "batch" /\ stopBatch = 0 /\ ~stop THEN Len(calls) ELSE stopBatch
    /\ UNCHANGED <<others, pc, params, servers, i, inflight, health_results, result_list,
                   calls, returned, raised, interrupted, stop_on_return>>

\* reset_stop(): the callers (cli.py) invoke it on the thread that runs the
\* operation, right before starting it, hence never while a call is in progress.
ResetStop ==
    /\ pc = "idle"
    /\ stop' = FALSE
    /\ UNCHANGED <<others, pc, params, servers, i, inflight, health_results, result_list, history>>

\* ------------------------------------------------------------------------
\* get_servers_with_health
\* ------------------------------------------------------------------------
\* A call that clears the stop flag on entry.
CallClearingStop(bs, lim, minq, fu, ch) ==
    /\ pc = "idle"
    /\ pc' = "discover"
    /\ stop' = FALSE
    /\ health_batch_size' = bs
    /\ concurrent_limit' = lim
    /\ min_quality_score' = minq
    /\ filter_unhealthy' = fu
    /\ check_health' = ch
    /\ UNCHANGED <<others, servers, i, inflight, health_results, result_list, history>>

\* The call, with its arguments.
Call(bs, lim, minq, fu, ch) ==
    /\ pc = "idle"
    /\ pc' = "discover"
    /\ health_batch_size' = bs
    /\ concurrent_limit' = lim
    /\ min_quality_score' = minq
    /\ filter_unhealthy' = fu
    /\ check_health' = ch
    /\ UNCHANGED <<others, stop, servers, i, inflight, health_results, result_list, history>>

\* servers = self.get_all_servers(...): a deduplicated list; nothing is fetched
\* once the stop flag is set; a Ctrl+C during a fetch is caught inside, sets the
\* flag and leaves the servers collected so far.
GetAllServers(raw, ctrl_c) ==
    /\ pc = "discover"
    /\ servers' = IF stop THEN <<>> ELSE Dedup(raw)
    /\ stop' = (stop \/ ctrl_c)
    /\ pc' = "precheck"
    /\ UNCHANGED <<others, params, i, inflight, health_results, result_list, history>>

\* An entry to the health-checking phase that does not look at the stop flag.
PreCheckIgnoringStop ==
    /\ pc = "precheck"
    /\ IF ~check_health
       THEN /\ result_list' = Unchecked(servers)
            /\ stop_on_return' = stop
            /\ pc' = "returned"
       ELSE /\ UNCHANGED <<result_list, stop_on_return>>
            /\ pc' = "loop"
    /\ i' = 0
    /\ health_results' = <<>>
    /\ UNCHANGED <<others, stop, params, servers, inflight, calls, returned, raised,
                   interrupted, stopBatch>>

\* if self.should_stop(): return unchecked / if not check_health: return unchecked
PreCheck ==
    /\ pc = "precheck"
    /\ IF stop \/ ~check_health
       THEN /\ result_list' = Unchecked(servers)
            /\ stop_on_return' = stop
            /\ pc' = "returned"
       ELSE /\ UNCHANGED <<result_list, stop_on_return>>
            /\ pc' = "loop"
    /\ i' = 0
    /\ health_results' = <<>>
    /\ UNCHANGED <<others, stop, params, servers, inflight, calls, returned, raised,
                   interrupted, stopBatch>>

\* A slice that runs one item into the next chunk.
ChunkOneTooLong(ss, from, size) == SubSeq(ss, from + 1, Min(from + size + 1, Len(ss)))

\* server_tuples[i: i + health_batch_size]
Chunk(ss, from, size) == SubSeq(ss, from + 1, Min(from + size, Len(ss)))

\* A loop that never looks at the stop flag.
LoopHeadNoStopCheck ==
    /\ pc = "loop"
    /\ IF i >= Len(servers)
       THEN /\ pc' = "post"
            /\ UNCHANGED <<inflight, calls>>
       ELSE /\ pc' = "batch"
            /\ batch' = Chunk(servers, i, health_batch_size)
            /\ task' = [j \in 1..Len(batch') |-> "waiting"]
            /\ results' = [j \in 1..Len(batch') |-> Pending]
            /\ calls' = Append(calls, batch')
    /\ UNCHANGED <<others, stop, params, servers, i, health_results, result_list,
                   returned, raised, interrupted, stopBatch, stop_on_return>>

\* Head of the for loop: range exhausted, or stop flag set (break), or the call
\* checker.check_servers(batch), which creates one coroutine per item.
LoopHead ==
    /\ pc = "loop"
    /\ IF i >= Len(servers) \/ stop
       THEN /\ pc' = "post"
            /\ UNCHANGED <<inflight, calls>>
       ELSE /\ pc' = "batch"
            /\ batch' = Chunk(servers, i, health_batch_size)
            /\ task' = [j \in 1..Len(batch') |-> "waiting"]
            /\ results' = [j \in 1..Len(batch') |-> Pending]
            /\ calls' = Append(calls, batch')
    /\ UNCHANGED <<others, stop, params, servers, i, health_results, result_list,
                   returned, raised, interrupted, stopBatch, stop_on_return>>

\* A limiter without a limit.
SlotFreeUnbounded == TRUE

\* asyncio.Semaphore(self.concurrent_limit): a slot can be taken while fewer
\* than concurrent_limit are held.
SlotFree == Cardinality(Holders) < concurrent_limit

\* async with semaphore / check_server_health up to the connect.  A slot is
\* taken only while fewer than concurrent_limit are held; nothing suspends
\* between taking the slot and the validation, so this is one step of the event
\* loop.  An invalid config and a config without target are answered at once
\* (the slot is released on the way out), otherwise the TCP connect is started
\* and the coroutine suspends holding its slot.
Acquire(j) ==
    /\ pc = "batch"
    /\ j \in DOMAIN task
    /\ task[j] = "waiting"
    /\ SlotFree
    /\ LET c == batch[j] IN
       CASE c.kind = "invalid" ->
              /\ results' = [results EXCEPT ![j] =
                    Gathered(TRUE, ServerHealth(c, "invalid", None, "none", "invalid format"))]
              /\ task' = [task EXCEPT ![j] = "done"]
         [] c.kind = "notarget" ->
              /\ results' = [results EXCEPT ![j] =
                    Gathered(TRUE, ServerHealth(c, "healthy", None, "none", "none"))]
              /\ task' = [task EXCEPT ![j] = "done"]
         [] OTHER ->
              /\ task' = [task EXCEPT ![j] = "probing"]
              /\ UNCHANGED results
    /\ UNCHANGED <<others, pc, stop, params, servers, i, batch, health_results,
                   result_list, history>>

\* The connect succeeds with some latency: Healthy below 500 ms, else Degraded.
ProbeReachable(j, latency) ==
    /\ pc = "batch"
    /\ j \in DOMAIN task
    /\ task[j] = "probing"
    /\ results' = [results EXCEPT ![j] =
          Gathered(TRUE, ServerHealth(batch[j],
                                      IF latency < 500 THEN "healthy" ELSE "degraded",
                                      latency, "none", "none"))]
    /\ task' = [task EXCEPT ![j] = "done"]
    /\ UNCHANGED <<others, pc, stop, params, servers, i, batch, health_results,
                   result_list, history>>

\* The connect times out or fails: Unreachable, with the error message.
ProbeUnreachable(j) ==
    /\ pc = "batch"
    /\ j \in DOMAIN task
    /\ task[j] = "probing"
    /\ results' = [results EXCEPT ![j] =
          Gathered(TRUE, ServerHealth(batch[j], "unreachable", None, "connection error", "none"))]
    /\ task' = [task EXCEPT ![j] = "done"]
    /\ UNCHANGED <<others, pc, stop, params, servers, i, batch, health_results,
                   result_list, history>>

\* The suspended coroutine is resumed with an exception that nothing in
\* check_server_health catches: gather(return_exceptions=True) collects it in
\* place of a ServerHealth; the slot is released by the with block.
ProbeRaises(j) ==
    /\ pc = "batch"
    /\ j \in DOMAIN task
    /\ task[j] = "probing"
    /\ results' = [results EXCEPT ![j] = Gathered(FALSE, NoHealth)]
    /\ task' = [task EXCEPT ![j] = "done"]
    /\ UNCHANGED <<others, pc, stop, params, servers, i, batch, health_results,
                   result_list, history>>

\* A loop body that throws the batch away when the stop flag was set meanwhile.
BatchReturnDropWhenStopped ==
    /\ pc = "batch"
    /\ \A j \in DOMAIN task : task[j] = "done"
    /\ LET batch_results == IF stop THEN <<>> ELSE health_of(results) IN
       /\ health_results' = health_results \o batch_results
       /\ returned' = Append(returned, health_of(results))
    /\ raised' = Append(raised, {j \in DOMAIN results : ~results[j].ok})
    /\ i' = i + health_batch_size
    /\ pc' = "loop"
    /\ batch' = <<>>
    /\ task' = <<>>
    /\ results' = <<>>
    /\ UNCHANGED <<others, stop, params, servers, result_list, calls, interrupted,
                   stopBatch, stop_on_return>>

\* gather is complete: check_servers returns the ServerHealth instances and the
\* loop body extends the accumulator.
BatchReturn ==
    /\ pc = "batch"
    /\ \A j \in DOMAIN task : task[j] = "done"
    /\ LET batch_results == health_of(results) IN
       /\ health_results' = health_results \o batch_results
       /\ returned' = Append(returned, batch_results)
    /\ raised' = Append(raised, {j \in DOMAIN results : ~results[j].ok})
    /\ i' = i + health_batch_size
    /\ pc' = "loop"
    /\ batch' = <<>>
    /\ task' = <<>>
    /\ results' = <<>>
    /\ UNCHANGED <<others, stop, params, servers, result_list, calls, interrupted,
                   stopBatch, stop_on_return>>

\* An except clause that only logs.
KeyboardInterruptLogOnly ==
    /\ pc = "batch"
    /\ interrupted' = Len(calls)
    /\ pc' = "post"
    /\ batch' = <<>>
    /\ task' = <<>>
    /\ results' = <<>>
    /\ UNCHANGED <<others, stop, params, servers, i, health_results, result_list, calls,
                   returned, raised, stopBatch, stop_on_return>>

\* KeyboardInterrupt raised out of checker.check_servers(batch): the except
\* clause calls request_stop(); the batch in flight contributes nothing.
KeyboardInterrupt ==
    /\ pc = "batch"
    /\ stop' = TRUE
    /\ interrupted' = Len(calls)
    /\ pc' = "post"
    /\ batch' = <<>>
    /\ task' = <<>>
    /\ results' = <<>>
    /\ UNCHANGED <<others, params, servers, i, health_results, result_list, calls,
                   returned, raised, stopBatch, stop_on_return>>

\* The filter applied by get_servers_with_health: only when asked for.
Filtered(hs, minq, fu) ==
    IF fu \/ minq > 0 THEN filter_healthy_servers(hs, minq, fu) ELSE hs

\* Filter, sort, convert to dicts, return.
Finish ==
    /\ pc = "post"
    /\ result_list' =
          Convert(sort_by_quality(Filtered(health_results, min_quality_score, filter_unhealthy)))
    /\ stop_on_return' = stop
    /\ pc' = "returned"
    /\ UNCHANGED <<others, stop, params, servers, i, inflight, health_results, calls,
                   returned, raised, interrupted, stopBatch>>

\* The caller is done with the returned list; the finder is ready for a new call.
NewCall ==
    /\ pc = "returned"
    /\ pc' = "idle"
    /\ servers' = <<>>
    /\ i' = 0
    /\ health_results' = <<>>
    /\ result_list' = <<>>
    /\ calls' = <<>>
    /\ returned' = <<>>
    /\ raised' = <<>>
    /\ interrupted' = 0
    /\ stopBatch' = 0
    /\ stop_on_return' = FALSE
    /\ health_batch_size' = 1
    /\ concurrent_limit' = 1
    /\ min_quality_score' = 0
    /\ filter_unhealthy' = FALSE
    /\ check_health' = TRUE
    /\ UNCHANGED <<others, stop, inflight>>

\* The lists discovery can deliver before deduplication: configs 1..n of any
\* kinds, possibly followed by a repetition of one of them.
RECURSIVE KindLists(_)
KindLists(n) ==
    IF n = 0 THEN {<<>>}
    ELSE {Append(ks, k) : ks \in KindLists(n - 1), k \in Kinds}

RawLists ==
    UNION {{[k \in 1..Len(ks) |-> Config(k, ks[k])] : ks \in KindLists(n)} : n \in 0..MaxServers}

WithRepeat(base) == {base} \cup {Append(base, base[d]) : d \in 1..Len(base)}

\* GetAllServers' guard is repeated ahead of its quantifiers: the lists are
\* enumerated only in the states where the call is at that step.
Next ==
    \/ RequestStop
    \/ ResetStop
    \/ \E bs \in 1..MaxBatch, lim \in 1..MaxLimit, minq \in MinScores,
          fu \in BOOLEAN, ch \in BOOLEAN : Call(bs, lim, minq, fu, ch)
    \/ pc = "discover" /\ \E base \in RawLists, ctrl_c \in BOOLEAN :
          \E raw \in WithRepeat(base) : GetAllServers(raw, ctrl_c)
    \/ PreCheck
    \/ LoopHead
    \/ \E j \in DOMAIN task : Acquire(j)
    \/ \E j \in DOMAIN task, latency \in Latencies : ProbeReachable(j, latency)
    \/ \E j \in DOMAIN task : ProbeUnreachable(j)
    \/ \E j \in DOMAIN task : ProbeRaises(j)
    \/ BatchReturn
    \/ KeyboardInterrupt
    \/ Finish
    \/ NewCall

Spec == Init /\ [][Next]_vars

\* ------------------------------------------------------------------------
\* The batch-stop scenario: get_servers_with_health(health_batch_size=3) with
\* default filters, right after get_all_servers delivered 6 servers that all
\* have a target to probe.
\* ------------------------------------------------------------------------
InitScenario ==
    /\ DiscoveryIdle
    /\ CliIdle
    /\ StoreIdle
    /\ pc = "precheck"
    /\ stop = FALSE
    /\ health_batch_size = 3
    /\ concurrent_limit \in 1..MaxLimit
    /\ min_quality_score = 0
    /\ filter_unhealthy = FALSE
    /\ check_health = TRUE
    /\ servers = [k \in 1..6 |-> Config(k, "target")]
    /\ i = 0
    /\ batch = <<>>
    /\ task = <<>>
    /\ results = <<>>
    /\ health_results = <<>>
    /\ result_list = <<>>
    /\ calls = <<>>
    /\ returned = <<>>
    /\ raised = <<>>
    /\ interrupted = 0
    /\ stopBatch = 0
    /\ stop_on_return = FALSE
    /\ ItemIdle
    /\ PureIdle

NextScenario ==
    \/ RequestStop
    \/ PreCheck
    \/ LoopHead
    \/ \E j \in DOMAIN task : Acquire(j)
    \/ \E j \in DOMAIN task, latency \in Latencies : ProbeReachable(j, latency)
    \/ \E j \in DOMAIN task : ProbeUnreachable(j)
    \/ \E j \in DOMAIN task : ProbeRaises(j)
    \/ BatchReturn
    \/ KeyboardInterrupt
    \/ Finish

SpecScenario == InitScenario /\ [][NextScenario]_vars

\* ------------------------------------------------------------------------
\* Properties
\* ------------------------------------------------------------------------
\* What get_servers_with_health makes of an accumulator: filter, sort, convert.
Outcome(hs) ==
    Convert(sort_by_quality(Filtered(hs, min_quality_score, filter_unhealthy)))

\* C1: while a batch is checked, the number of items holding a limiter slot
\* (validation done, TCP probe in flight) never exceeds concurrent_limit.
C1_SlotsBounded == Cardinality(Holders) <= concurrent_limit

\* C1 witness: the limiter is saturated and an item is kept waiting.
C1_Witness ==
    /\ pc = "batch"
    /\ Cardinality(Holders) = concurrent_limit
    /\ \E j \in DOMAIN task : task[j] = "waiting" /\ batch[j].kind = "target"

\* C2: when the check of batch k is hit by KeyboardInterrupt, the call returns
\* (the interrupt is not propagated) what filtering and sorting make of the
\* results of batches 1..k-1, batch k contributes nothing, no batch after k was
\* started, and should_stop() is true at the return.
C2_InterruptKeepsPrior ==
    (pc \in {"post", "returned"} /\ interrupted > 0) =>
        /\ Len(calls) = interrupted
        /\ Len(returned) = interrupted - 1
        /\ health_results = Flatten(returned)
        /\ stop
        /\ pc = "returned" => (stop_on_return /\ result_list = Outcome(Flatten(returned)))

\* C2 witness: the interrupt hit a later batch and earlier results are returned.
C2_Witness ==
    /\ pc = "returned"
    /\ interrupted > 1
    /\ Len(result_list) > 0
    /\ Len(servers) > Len(Flatten(calls))

\* C3: when request_stop() is called while batch k is checked and no interrupt
\* is raised, batch k completes and is kept, and no batch after k is started:
\* exactly k check_servers calls, and the result is made of batches 1..k.
C3_StopAfterCurrentBatch ==
    (pc = "returned" /\ stopBatch > 0 /\ interrupted = 0) =>
        /\ Len(calls) = stopBatch
        /\ Len(returned) = stopBatch
        /\ health_results = Flatten(returned)
        /\ result_list = Outcome(Flatten(returned))

\* C3 witness: stop requested during a batch that is not the last one; its
\* records are in the result.
C3_Witness ==
    /\ pc = "returned"
    /\ stopBatch > 0
    /\ interrupted = 0
    /\ Len(servers) > Len(Flatten(calls))
    /\ \E k \in DOMAIN result_list :
          result_list[k].config \in Range(calls[stopBatch])

\* C4 as stated: 6 servers, batch size 3, the token set while batch 2 is
\* checked: the call returns exactly the results of batch 1 and the token reads
\* set.
C4_OnlyFirstBatch ==
    (pc = "returned" /\ Len(servers) = 6 /\ health_batch_size = 3
        /\ stopBatch = 2 /\ interrupted = 0) =>
        /\ result_list = Outcome(returned[1])
        /\ stop_on_return

\* C4 as amended: in that scenario batch 2 completes and is kept: the call
\* returns the results of batch 1 and of batch 2, after exactly two
\* check_servers calls, and the token reads set.
C4_BothBatches ==
    (pc = "returned" /\ Len(servers) = 6 /\ health_batch_size = 3
        /\ stopBatch = 2 /\ interrupted = 0) =>
        /\ Len(calls) = 2
        /\ Len(returned) = 2
        /\ result_list = Outcome(returned[1] \o returned[2])
        /\ stop_on_return

\* C4 witness: the scenario ran, the token was set during batch 2, and all six
\* servers are in the result.
C4_Witness ==
    /\ pc = "returned"
    /\ Len(servers) = 6
    /\ health_batch_size = 3
    /\ stopBatch = 2
    /\ interrupted = 0
    /\ Len(result_list) = 6

C6_SortedByQuality ==
    pc = "returned" =>
        \A k \in 1..(Len(result_list) - 1) :
            result_list[k].health_checked =>
                result_list[k].quality_score >= result_list[k + 1].quality_score

\* C6 witness: partial results after an interrupt, accumulated in an order
\* that is not the returned one.
C6_Witness ==
    /\ pc = "returned"
    /\ interrupted > 0
    /\ Len(result_list) >= 2
    /\ result_list[1].health_checked
    /\ \E k \in 1..(Len(health_results) - 1) :
          quality_score(health_results[k]) < quality_score(health_results[k + 1])

\* ceil(n / health_batch_size)
NumChunks == (Len(servers) + health_batch_size - 1) \div health_batch_size

\* C7: check_servers is called on consecutive chunks of at most
\* health_batch_size servers, in input order and chunk order; a chunk is handed
\* over only after the call for the previous one returned; a run that is not
\* stopped makes ceil(n / health_batch_size) calls (none for an empty list).
C7_ChunksInOrder ==
    /\ \A m \in DOMAIN calls :
          /\ calls[m] = SubSeq(servers, (m - 1) * health_batch_size + 1,
                               Min(m * health_batch_size, Len(servers)))
          /\ Len(calls[m]) >= 1
          /\ Len(calls[m]) <= health_batch_size
    /\ Len(calls) - Len(returned) = (IF pc = "batch" \/ interrupted > 0 THEN 1 ELSE 0)
    /\ (pc = "returned" /\ check_health /\ ~stop_on_return) => Len(calls) = NumChunks

\* C7 witness: a run that was not stopped, with a last chunk shorter than the
\* others.
C7_Witness ==
    /\ pc = "returned"
    /\ check_health
    /\ ~stop_on_return
    /\ Len(calls) >= 2
    /\ Len(calls[Len(calls)]) < health_batch_size

\* C8: every returned config is one of the discovered servers and no server
\* yields two records; a run that is not stopped, without filter and without
\* per-item exception, returns exactly one record per server.
C8_OneRecordPerServer ==
    pc = "returned" =>
        /\ \A k \in DOMAIN result_list : result_list[k].config \in Range(servers)
        /\ \A k, l \in DOMAIN result_list :
              k # l => result_list[k].config # result_list[l].config
        /\ (/\ ~stop_on_return
            /\ ~filter_unhealthy
            /\ min_quality_score = 0
            /\ \A m \in DOMAIN raised : raised[m] = {}) =>
               /\ Len(result_list) = Len(servers)
               /\ {result_list[k].config : k \in DOMAIN result_list} = Range(servers)

\* C8 witness: a complete health-checked run over several batches, no filter,
\* no exception.
C8_Witness ==
    /\ pc = "returned"
    /\ check_health
    /\ ~stop_on_return
    /\ ~filter_unhealthy
    /\ min_quality_score = 0
    /\ Len(calls) >= 2
    /\ \A m \in DOMAIN raised : raised[m] = {}
    /\ Len(result_list) >= 3

\* C9: a check_servers call in which items raise still returns: the records
\* of all other items and none for the failing ones.
C9_ExceptionsDropped ==
    \A m \in DOMAIN returned :
        /\ Len(returned[m]) = Len(calls[m]) - Cardinality(raised[m])
        /\ {returned[m][k].config : k \in DOMAIN returned[m]}
              = {calls[m][j] : j \in (DOMAIN calls[m]) \ raised[m]}

\* C9 witness: a call returned in which one item raised and another did not.
C9_Witness ==
    \E m \in DOMAIN returned : raised[m] # {} /\ Len(returned[m]) >= 1

\* Some batch of the discovered servers was skipped or interrupted.
NotAllChecked == Len(returned) < NumChunks

\* C10 as stated, for the calls that discovered servers: when the
\* health-checking call returns, should_stop() is true if and only if some
\* batch was not completely health-checked.
C10_FlagIffStoppedEarly ==
    (pc = "returned" /\ check_health /\ servers # <<>>) =>
        (stop_on_return <=> NotAllChecked)

\* C10 as amended: when the health-checking call returns and some batch was
\* not completely health-checked, should_stop() is true (the flag can also be
\* set when every batch was checked).
C10_FlagIfStoppedEarly ==
    (pc = "returned" /\ check_health) => (NotAllChecked => stop_on_return)

\* C10 witness: some batches were checked, others skipped, and the flag is set.
C10_Witness ==
    /\ pc = "returned"
    /\ check_health
    /\ NotAllChecked
    /\ Len(returned) >= 1
    /\ stop_on_return

\* ------------------------------------------------------------------------
\* The stop flag across operations
\* ------------------------------------------------------------------------
\* C11: once request_stop() has set the flag, should_stop() stays true over
\* every step of discovery and health checking; the only step that takes it
\* back to false is reset_stop().
C11_StopLatched == [][stop => (stop' \/ ResetStop)]_vars

\* C11 witness: the flag was set while a batch was in flight and still reads
\* set after the loop, the filter, the sort and the return.
C11_Witness ==
    /\ pc = "returned"
    /\ stopBatch > 0
    /\ Len(returned) >= 1
    /\ stop

ProbeLatencies == {0, 50, 99, 100, 299, 300, 499, 500, 501, 600, 1000}
\* Hosts and ports a validation can extract: "none" stands for Python's None.
Hosts == {"none", "", "example.com", "10.0.0.1"}
Ports == {0, 443, 8443}

\* Python truthiness of an extracted host / port.
TruthyHost(host) == host \notin {"none", ""}
TruthyPort(port) == port \notin {None, 0}

\* The tuples validate_config returns: a failure with its message and no
\* target, ssr with no target, or a parsed host and port of any value.
ValidateResults ==
    {Validation(FALSE, msg, "none", None) : msg \in {"Invalid vmess format", "Unknown protocol"}}
    \cup {Validation(TRUE, "none", "none", None)}
    \cup {Validation(TRUE, "none", host, port) : host \in Hosts, port \in Ports}

\* The kind of config a validation result stands for.
KindOf(v) ==
    IF ~v.is_valid THEN "invalid"
    ELSE IF TruthyHost(v.host) /\ TruthyPort(v.port) THEN "target"
    ELSE "notarget"

\* The config string under check.
TheConfig == Config(1, KindOf(validation))

\* A probe attempted whatever was extracted.
ProbeAlways(v) == TRUE

\* if host and port:
NeedsProbe(v) == TruthyHost(v.host) /\ TruthyPort(v.port)

\* A classification that still calls 500 ms healthy.
ClassifiedHealthyAt500(config, t) ==
    IF t.is_reachable
    THEN ServerHealth(config, IF t.latency_ms <= 500 THEN "healthy" ELSE "degraded",
                      t.latency_ms, "none", "none")
    ELSE ServerHealth(config, "unreachable", None, t.error_msg, "none")

\* A classification that leaves the probe's error message behind.
ClassifiedWithoutError(config, t) ==
    IF t.is_reachable
    THEN ServerHealth(config, IF t.latency_ms < 500 THEN "healthy" ELSE "degraded",
                      t.latency_ms, "none", "none")
    ELSE ServerHealth(config, "unreachable", None, "none", "none")

\* The record built from the probe's result.
Classified(config, t) ==
    IF t.is_reachable
    THEN ServerHealth(config, IF t.latency_ms < 500 THEN "healthy" ELSE "degraded",
                      t.latency_ms, "none", "none")
    ELSE ServerHealth(config, "unreachable", None, t.error_msg, "none")

InitItem ==
    /\ DiscoveryIdle
    /\ CliIdle
    /\ StoreIdle
    /\ PipelineIdle
    /\ PureIdle
    /\ ipc = "start"
    /\ validation \in ValidateResults
    /\ measured = None
    /\ tcp = NoTcp
    /\ health = NoHealth
    /\ connects = 0
    /\ connected = FALSE

\* A check that goes on whatever the validation said.
CheckServerHealthSkippingValidity ==
    /\ ipc = "start"
    /\ IF NeedsProbe(validation)
       THEN /\ ipc' = "tcp"
            /\ UNCHANGED health
       ELSE /\ health' = ServerHealth(TheConfig, "healthy", None, "none", "none")
            /\ ipc' = "done"
    /\ UNCHANGED <<besides_item, validation, measured, tcp, connects, connected>>

\* check_server_health up to its first suspension: validate, then return an
\* Invalid record, or call check_tcp_connectivity, or return Healthy unprobed.
CheckServerHealth ==
    /\ ipc = "start"
    /\ IF ~validation.is_valid
       THEN /\ health' = ServerHealth(TheConfig, "invalid", None, "none", validation.error_msg)
            /\ ipc' = "done"
       ELSE IF NeedsProbe(validation)
       THEN /\ ipc' = "tcp"
            /\ UNCHANGED health
       ELSE /\ health' = ServerHealth(TheConfig, "healthy", None, "none", "none")
            /\ ipc' = "done"
    /\ UNCHANGED <<besides_item, validation, measured, tcp, connects, connected>>

\* check_tcp_connectivity up to its await: the guard on host and port, then
\* asyncio.open_connection under wait_for.
CheckTcpConnectivity ==
    /\ ipc = "tcp"
    /\ IF ~TruthyHost(validation.host) \/ ~TruthyPort(validation.port)
       THEN /\ tcp' = Tcp(FALSE, None, "Missing host or port")
            /\ ipc' = "classify"
            /\ UNCHANGED connects
       ELSE /\ connects' = connects + 1
            /\ ipc' = "connecting"
            /\ UNCHANGED tcp
    /\ UNCHANGED <<besides_item, validation, measured, health, connected>>

\* The connect completes within the timeout: the latency is taken,
\* writer.close() is called and the coroutine awaits writer.wait_closed().
ConnectCompletes(lat) ==
    /\ ipc = "connecting"
    /\ measured' = lat
    /\ connected' = TRUE
    /\ ipc' = "closing"
    /\ UNCHANGED <<besides_item, validation, tcp, health, connects>>

\* wait_for raises asyncio.TimeoutError.
ConnectTimesOut ==
    /\ ipc = "connecting"
    /\ tcp' = Tcp(FALSE, None, "Connection timeout")
    /\ ipc' = "classify"
    /\ UNCHANGED <<besides_item, validation, measured, health, connects, connected>>

\* open_connection raises another Exception (refused, DNS failure, ...).
ConnectFails ==
    /\ ipc = "connecting"
    /\ tcp' = Tcp(FALSE, None, "Connection failed")
    /\ ipc' = "classify"
    /\ UNCHANGED <<besides_item, validation, measured, health, connects, connected>>

\* wait_closed() returns: return True, latency, None.
CloseCompletes ==
    /\ ipc = "closing"
    /\ tcp' = Tcp(TRUE, measured, "none")
    /\ ipc' = "classify"
    /\ UNCHANGED <<besides_item, validation, measured, health, connects, connected>>

\* wait_closed() raises an Exception (the peer reset the connection): it is
\* raised inside the same try block and lands in "except Exception".
CloseFails ==
    /\ ipc = "closing"
    /\ tcp' = Tcp(FALSE, None, "Connection failed")
    /\ ipc' = "classify"
    /\ UNCHANGED <<besides_item, validation, measured, health, connects, connected>>

\* A BaseException (cancellation) at either await is caught by neither
\* function: the coroutine raises.
ItemCancelled ==
    /\ ipc \in {"connecting", "closing"}
    /\ ipc' = "raised"
    /\ UNCHANGED <<besides_item, validation, measured, tcp, health, connects, connected>>

\* Back in check_server_health: build the record from the probe's result.
Classify ==
    /\ ipc = "classify"
    /\ health' = Classified(TheConfig, tcp)
    /\ ipc' = "done"
    /\ UNCHANGED <<besides_item, validation, measured, tcp, connects, connected>>

NextItem ==
    \/ CheckServerHealth
    \/ CheckTcpConnectivity
    \/ \E lat \in ProbeLatencies : ConnectCompletes(lat)
    \/ ConnectTimesOut
    \/ ConnectFails
    \/ CloseCompletes
    \/ CloseFails
    \/ ItemCancelled
    \/ Classify

SpecItem == InitItem /\ [][NextItem]_vars

\* ------------------------------------------------------------------------
\* Properties of one check_server_health call
\* ------------------------------------------------------------------------
\* C13: an item whose validation fails never reaches a TCP connect: its
\* coroutine goes from the validation straight to a record with status
\* Invalid and validation_error set, no probe step in between.
C13_InvalidNeverProbed ==
    ~validation.is_valid =>
        /\ connects = 0
        /\ tcp = NoTcp
        /\ ipc \in {"start", "done"}
        /\ ipc = "done" =>
              /\ health.status = "invalid"
              /\ health.validation_error = validation.error_msg
              /\ health.validation_error # "none"

\* C13 witness: an Invalid record was returned for a config of unknown protocol.
C13_Witness ==
    /\ ipc = "done"
    /\ validation = Validation(FALSE, "Unknown protocol", "none", None)
    /\ health.status = "invalid"

\* C14: for a valid config with a (truthy) host and port, the record is
\* Healthy iff the probe returned reachable with latency below 500 ms,
\* Degraded iff reachable with latency of 500 ms or more, Unreachable iff the
\* probe returned not reachable, and then it carries the probe's error message.
C14_StatusFromProbe ==
    (/\ ipc = "done"
     /\ validation.is_valid
     /\ TruthyHost(validation.host)
     /\ TruthyPort(validation.port)) =>
        /\ tcp # NoTcp
        /\ health.status = "healthy" <=> (tcp.is_reachable /\ tcp.latency_ms < 500)
        /\ health.status = "degraded" <=> (tcp.is_reachable /\ tcp.latency_ms >= 500)
        /\ health.status = "unreachable" <=> ~tcp.is_reachable
        /\ ~tcp.is_reachable =>
              /\ health.error = tcp.error_msg
              /\ health.error \in {"Connection timeout", "Connection failed"}

\* C14 witness: a probe that took exactly 500 ms gave a Degraded record.
C14_Witness ==
    /\ ipc = "done"
    /\ tcp = Tcp(TRUE, 500, "none")
    /\ health.status = "degraded"

\* C15: a config that validates without a usable target (ssr, or a falsy host
\* or port) is never connected to, and its record is Healthy with latency_ms
\* and error absent, hence of quality score 50.
C15_NoTargetAssumedHealthy ==
    (validation.is_valid /\ ~(TruthyHost(validation.host) /\ TruthyPort(validation.port))) =>
        /\ connects = 0
        /\ ipc = "done" =>
              /\ health.status = "healthy"
              /\ health.latency_ms = None
              /\ health.error = "none"
              /\ quality_score(health) = 5000

\* C15 witness: the record of an ssr config was returned.
C15_Witness ==
    /\ ipc = "done"
    /\ validation = Validation(TRUE, "none", "none", None)
    /\ health.status = "healthy"
    /\ connects = 0

\* C16: every record check_server_health returns has the fields its status
\* calls for: Invalid has validation_error and neither latency_ms nor error;
\* Unreachable has error and neither latency_ms nor validation_error; Healthy
\* and Degraded have neither error nor validation_error, and have latency_ms
\* whenever a connect was attempted.
C16_FieldsMatchStatus ==
    ipc = "done" =>
        /\ health.status \in {"invalid", "unreachable", "healthy", "degraded"}
        /\ health.status = "invalid" =>
              /\ health.validation_error # "none"
              /\ health.latency_ms = None
              /\ health.error = "none"
        /\ health.status = "unreachable" =>
              /\ health.error # "none"
              /\ health.latency_ms = None
              /\ health.validation_error = "none"
        /\ health.status \in {"healthy", "degraded"} =>
              /\ health.error = "none"
              /\ health.validation_error = "none"
              /\ connects > 0 => health.latency_ms # None

\* C16 witness: an Unreachable record after a connect that timed out.
C16_Witness ==
    /\ ipc = "done"
    /\ connects = 1
    /\ health.status = "unreachable"
    /\ health.error = "Connection timeout"

\* C20: once the connect has completed within the timeout, what
\* check_tcp_connectivity returns is (True, latency_ms, None), whatever
\* happens while the connection is being closed.
C20_ConnectedMeansReachable ==
    (connected /\ tcp # NoTcp) => tcp = Tcp(TRUE, measured, "none")

\* ------------------------------------------------------------------------
\* ServerHealth.quality_score on its own
\* ------------------------------------------------------------------------
Statuses == {"healthy", "degraded", "unreachable", "invalid"}
\* latency_ms of the record: absent, every millisecond up to MaxLatency, or 1 s.
ScoreLatencies == {None} \cup 0..MaxLatency \cup {1000}

\* Any ServerHealth the dataclass can hold, whatever built it.
ScoreInputs ==
    {ServerHealth(Config(1, "target"), st, lat, "none", "none") :
        st \in Statuses, lat \in ScoreLatencies}

InitScore ==
    /\ DiscoveryIdle
    /\ CliIdle
    /\ StoreIdle
    /\ PipelineIdle
    /\ ItemIdle
    /\ input \in ScoreInputs
    /\ output = NotCalled

\* Reading the property.
ApplyQualityScore ==
    /\ ~output.called
    /\ output' = Returned(quality_score(input))
    /\ UNCHANGED <<besides_pure, input>>

NextScore == ApplyQualityScore

SpecScore == InitScore /\ [][NextScore]_vars

FilterRecords(k) ==
    {ServerHealth(Config(k, "invalid"), "invalid", None, "none", "Unknown protocol"),
     ServerHealth(Config(k, "target"), "unreachable", None, "Connection timeout", "none"),
     ServerHealth(Config(k, "notarget"), "healthy", None, "none", "none"),
     ServerHealth(Config(k, "target"), "healthy", 50, "none", "none"),
     ServerHealth(Config(k, "target"), "healthy", 150, "none", "none"),
     ServerHealth(Config(k, "target"), "healthy", 290, "none", "none"),
     ServerHealth(Config(k, "target"), "degraded", 600, "none", "none")}

RECURSIVE FilterLists(_)
FilterLists(n) ==
    IF n = 0 THEN {<<>>}
    ELSE {Append(hs, h) : hs \in FilterLists(n - 1), h \in FilterRecords(n)}

\* Thresholds passed as min_quality_score (hundredths): none, the default, 90.
FilterScores == {0, 5000, 9000}

FilterInputs ==
    {[health_results |-> hs, min_quality_score |-> minq, exclude_unreachable |-> ex] :
        hs \in UNION {FilterLists(n) : n \in 0..MaxResults},
        minq \in FilterScores, ex \in BOOLEAN}

InitFilter ==
    /\ DiscoveryIdle
    /\ CliIdle
    /\ StoreIdle
    /\ PipelineIdle
    /\ ItemIdle
    /\ input \in FilterInputs
    /\ output = NotCalled

\* filter_healthy_servers on the input, then sort_by_quality on what it returned.
ApplyFilter ==
    /\ ~output.called
    /\ LET filtered == filter_healthy_servers(input.health_results,
                                              input.min_quality_score,
                                              input.exclude_unreachable)
       IN  output' = Returned([filtered |-> filtered, sorted |-> sort_by_quality(filtered)])
    /\ UNCHANGED <<besides_pure, input>>

NextFilter == ApplyFilter

SpecFilter == InitFilter /\ [][NextFilter]_vars

Scores(hs) == [k \in 1..Len(hs) |-> quality_score(hs[k])]

\* C18: the filter returns exactly the input records that are not Invalid, not
\* Unreachable when exclude_unreachable is set, and score at least
\* min_quality_score, in input order; records scoring [30, 62, 90] with a
\* threshold of 50 give [62, 90], which sorts to [90, 62].
C18_FilterExact ==
    output.called =>
        LET hs == input.health_results
            out == output.value.filtered
            kept == {k \in 1..Len(hs) :
                        /\ hs[k].status # "invalid"
                        /\ input.exclude_unreachable => hs[k].status # "unreachable"
                        /\ quality_score(hs[k]) >= input.min_quality_score}
        IN  /\ Len(out) = Cardinality(kept)
            /\ Range(out) = {hs[k] : k \in kept}
            /\ \A a, b \in 1..Len(out) : a < b => out[a].config.id < out[b].config.id
            /\ (Scores(hs) = <<3000, 6200, 9000>> /\ input.min_quality_score = 5000) =>
                  /\ Scores(out) = <<6200, 9000>>
                  /\ Scores(output.value.sorted) = <<9000, 6200>>

\* C18 witness: the filter ran on records scoring 30, 62 and 90 with threshold 50
\* and kept two of them.
C18_Witness ==
    /\ output.called
    /\ Scores(input.health_results) = <<3000, 6200, 9000>>
    /\ input.min_quality_score = 5000
    /\ Len(output.value.filtered) = 2

\* ------------------------------------------------------------------------
\* check_servers_batch under a fair event loop
\* ------------------------------------------------------------------------
\* A health-checking call about to enter its loop, no stop requested, on any
\* discovered list.
InitLive ==
    /\ DiscoveryIdle
    /\ CliIdle
    /\ StoreIdle
    /\ pc = "precheck"
    /\ stop = FALSE
    /\ health_batch_size \in 1..MaxBatch
    /\ concurrent_limit \in 1..MaxLimit
    /\ min_quality_score = 0
    /\ filter_unhealthy = FALSE
    /\ check_health = TRUE
    /\ servers \in RawLists
    /\ i = 0
    /\ batch = <<>>
    /\ task = <<>>
    /\ results = <<>>
    /\ health_results = <<>>
    /\ result_list = <<>>
    /\ calls = <<>>
    /\ returned = <<>>
    /\ raised = <<>>
    /\ interrupted = 0
    /\ stopBatch = 0
    /\ stop_on_return = FALSE
    /\ ItemIdle
    /\ PureIdle

\* Any probe in flight comes to an end: reachable, unreachable or raising.
ProbeEnds ==
    \E j \in DOMAIN task :
        \/ \E latency \in Latencies : ProbeReachable(j, latency)
        \/ ProbeUnreachable(j)
        \/ ProbeRaises(j)

NextLive ==
    \/ PreCheck
    \/ LoopHead
    \/ \E j \in DOMAIN task : Acquire(j)
    \/ ProbeEnds
    \/ BatchReturn
    \/ Finish

\* The event loop runs every coroutine that can take a slot and resumes gather
\* once all items are done; every probe in flight terminates.
FairLive ==
    /\ WF_vars(\E j \in DOMAIN task : Acquire(j))
    /\ WF_vars(ProbeEnds)
    /\ WF_vars(BatchReturn)

SpecLive == InitLive /\ [][NextLive]_vars /\ FairLive

TaskAt(j) == IF pc = "batch" /\ j \in DOMAIN task THEN task[j] ELSE "none"

\* C19: with a limit of at least 1 and probes that terminate, a batch in flight
\* eventually returns, and only once every item has finished; every item
\* waiting for a slot eventually gets one, also after another item's check
\* raised, and holds it no longer once it has finished.
C19_BatchTerminates ==
    /\ (pc = "batch") ~> (pc = "loop")
    /\ \A j \in 1..MaxBatch : (TaskAt(j) = "waiting") ~> (TaskAt(j) \in {"probing", "done"})
    /\ \A j \in 1..MaxBatch : (TaskAt(j) = "probing") ~> (TaskAt(j) = "done" /\ j \notin Holders)
    /\ [][(pc = "batch" /\ pc' # "batch") =>
            \A j \in DOMAIN task : task[j] = "done"]_vars

\* C19 witness: with a single slot, a batch of two or more returned although
\* its first item's check had raised.
C19_Witness ==
    /\ concurrent_limit = 1
    /\ Len(returned) >= 1
    /\ Len(calls[1]) >= 2
    /\ 1 \in raised[1]
    /\ Len(returned[1]) >= 1

\* ------------------------------------------------------------------------
\* One check_server_health coroutine under the waits the code bounds
\* ------------------------------------------------------------------------
\* The wait on the connect ends: wait_for(..., timeout=self.timeout) either
\* hands over the connection, raises TimeoutError or lets the connect's error out.
ConnectEnds ==
    \/ \E lat \in ProbeLatencies : ConnectCompletes(lat)
    \/ ConnectTimesOut
    \/ ConnectFails

\* The event loop runs the coroutine whenever it is not suspended, and the wait
\* on the connect is bounded by wait_for.  Nothing bounds "await
\* writer.wait_closed()": no fairness on CloseCompletes or CloseFails.
FairItem ==
    /\ WF_vars(CheckServerHealth)
    /\ WF_vars(CheckTcpConnectivity)
    /\ WF_vars(ConnectEnds)
    /\ WF_vars(Classify)

SpecItemFair == InitItem /\ [][NextItem]_vars /\ FairItem

Alphabet == {"@", "?", ":", "h", "1", "0"}
Digits == {"0", "1"}

RECURSIVE TextsOfLen(_)
TextsOfLen(n) ==
    IF n = 0 THEN {<<>>}
    ELSE {Append(t, c) : t \in TextsOfLen(n - 1), c \in Alphabet}

Texts == UNION {TextsOfLen(n) : n \in 0..MaxText}

\* str.split(sep): the pieces between the separators, empty pieces kept.
RECURSIVE Split(_, _)
Split(text, sep) ==
    IF text = <<>> THEN << <<>> >>
    ELSE LET rest == Split(Tail(text), sep)
         IN  IF Head(text) = sep THEN << <<>> >> \o rest
             ELSE << <<Head(text)>> \o Head(rest) >> \o Tail(rest)

\* int(text) succeeds (on texts over Alphabet: one or more digits).
IsInt(text) == text # <<>> /\ \A k \in 1..Len(text) : text[k] \in Digits

\* int(text), base 10.
RECURSIVE IntOf(_)
IntOf(text) ==
    IF text = <<>> THEN 0
    ELSE IntOf(SubSeq(text, 1, Len(text) - 1)) * 10
         + (IF text[Len(text)] = "1" THEN 1 ELSE 0)

\* The dict of extract_vless_info / extract_trojan_info, or None.
Info(valid, host, port) == [valid |-> valid, host |-> host, port |-> port]
\* Python's None where a host text is expected.
NoHost == <<"None">>
NoInfo == Info(FALSE, NoHost, None)

\* extract_vless_info and extract_trojan_info on the text after the scheme.
extract_info(text) ==
    IF "@" \notin Range(text) THEN NoInfo
    ELSE LET parts == Split(Split(text, "@")[2], "?")[1]
             host_port == Split(parts, ":")
         IN  IF Len(host_port) # 2 THEN NoInfo
             ELSE IF ~IsInt(host_port[2]) THEN NoInfo
             ELSE Info(TRUE, host_port[1], IntOf(host_port[2]))

\* validate_config on protocol://text for the two protocols.
validate_config(protocol, text) ==
    LET info == extract_info(text)
    IN  IF info.valid THEN Validation(TRUE, "none", info.host, info.port)
        ELSE Validation(FALSE, IF protocol = "vless" THEN "Invalid vless format"
                               ELSE "Invalid trojan format", NoHost, None)

InitParse ==
    /\ DiscoveryIdle
    /\ CliIdle
    /\ StoreIdle
    /\ PipelineIdle
    /\ ItemIdle
    /\ input \in [protocol : {"vless", "trojan"}, text : Texts]
    /\ output = NotCalled

ApplyValidateConfig ==
    /\ ~output.called
    /\ output' = Returned(validate_config(input.protocol, input.text))
    /\ UNCHANGED <<besides_pure, input>>

NextParse == ApplyValidateConfig

SpecParse == InitParse /\ [][NextParse]_vars

\* The text after the first occurrence of sep, and the text before it.
RECURSIVE AfterFirst(_, _)
AfterFirst(text, sep) ==
    IF text = <<>> THEN <<>>
    ELSE IF Head(text) = sep THEN Tail(text)
    ELSE AfterFirst(Tail(text), sep)

RECURSIVE BeforeFirst(_, _)
BeforeFirst(text, sep) ==
    IF text = <<>> THEN <<>>
    ELSE IF Head(text) = sep THEN <<>>
    ELSE <<Head(text)>> \o BeforeFirst(Tail(text), sep)

\* C30: a vless:// or trojan:// config is valid iff the text after its first
\* '@', cut at the first '?', splits on ':' into exactly two parts of which the
\* second parses as an integer; host and port are then these two parts, and
\* otherwise the result is (False, "Invalid <protocol> format", None, None).
C30_AfterFirstAt ==
    output.called =>
        LET pieces == Split(BeforeFirst(AfterFirst(input.text, "@"), "?"), ":")
            ok == /\ "@" \in Range(input.text)
                  /\ Len(pieces) = 2
                  /\ IsInt(pieces[2])
            msg == IF input.protocol = "vless" THEN "Invalid vless format"
                   ELSE "Invalid trojan format"
        IN  /\ output.value.is_valid <=> ok
            /\ ok => /\ output.value.host = pieces[1]
                     /\ output.value.port = IntOf(pieces[2])
            /\ ~ok => output.value = Validation(FALSE, msg, NoHost, None)

\* C22: a config reported valid with a target has a port in 1..65535 and a
\* non-empty host.
C22_TargetInRange ==
    (output.called /\ output.value.is_valid) =>
        /\ output.value.port \in 1..65535
        /\ output.value.host # <<>>

\* ------------------------------------------------------------------------
\* get_all_servers step by step, followed by the health-checking phase
\* ------------------------------------------------------------------------
\* What one fetch can deliver: nothing (an error result, a repository search,
\* a file listing, an empty file) or the configs parsed from a file.
FetchResults ==
    {<<>>,
     <<Config(1, "target")>>,
     <<Config(2, "target"), Config(1, "target")>>,
     <<Config(3, "target")>>,
     <<Config(1, "target"), Config(1, "target")>>}

\* get_servers_with_health(use_github_search=..., check_health=True) has just
\* called get_all_servers, which has called get_servers_from_known_sources.
InitDiscover ==
    /\ CliIdle
    /\ StoreIdle
    /\ ItemIdle
    /\ PureIdle
    /\ pc = "discover"
    /\ stop = FALSE
    /\ health_batch_size = 2
    /\ concurrent_limit = 2
    /\ min_quality_score = 0
    /\ filter_unhealthy = FALSE
    /\ check_health = TRUE
    /\ servers = <<>>
    /\ i = 0
    /\ batch = <<>>
    /\ task = <<>>
    /\ results = <<>>
    /\ health_results = <<>>
    /\ result_list = <<>>
    /\ calls = <<>>
    /\ returned = <<>>
    /\ raised = <<>>
    /\ interrupted = 0
    /\ stopBatch = 0
    /\ stop_on_return = FALSE
    /\ dpc = "known"
    /\ use_github_search \in BOOLEAN
    /\ all_servers = <<>>
    /\ found = <<>>
    /\ visited = 0
    /\ ki = "none"

\* A fetch of a known source made whatever the stop flag reads.
FetchKnownIgnoringStop(list) ==
    /\ dpc = "known"
    /\ visited < MaxSources
    /\ all_servers' = all_servers \o list
    /\ visited' = visited + 1
    /\ UNCHANGED <<pipeline, besides_discovery, dpc, use_github_search, found, ki>>

\* One iteration of the loop over DIRECT_SOURCES: the stop flag reads unset and
\* the fetch returns.
FetchKnown(list) ==
    /\ dpc = "known"
    /\ ~stop
    /\ visited < MaxSources
    /\ all_servers' = all_servers \o list
    /\ visited' = visited + 1
    /\ UNCHANGED <<pipeline, besides_discovery, dpc, use_github_search, found, ki>>

\* Ctrl+C during the fetch of a known source: caught around the loop, which
\* calls request_stop().
InterruptKnown ==
    /\ dpc = "known"
    /\ ~stop
    /\ visited < MaxSources
    /\ stop' = TRUE
    /\ ki' = "known"
    /\ UNCHANGED <<besides_discovery, pc, params, servers, i, inflight, health_results,
                   result_list, history, dpc, use_github_search, all_servers, found, visited>>

\* get_servers_from_known_sources returns; get_all_servers either goes on to
\* the GitHub search or returns.
KnownReturn ==
    /\ dpc = "known"
    /\ stop \/ visited = MaxSources
    /\ found' = Dedup(all_servers)
    /\ all_servers' = <<>>
    /\ visited' = 0
    /\ IF use_github_search /\ ~stop
       THEN /\ dpc' = "github"
            /\ UNCHANGED <<pc, servers>>
       ELSE /\ dpc' = "done"
            /\ servers' = Dedup(all_servers)
            /\ pc' = "precheck"
    /\ UNCHANGED <<besides_discovery, stop, params, i, inflight, health_results,
                   result_list, history, use_github_search, ki>>

\* One fetch of the GitHub search (search_repos, get_repo_files or
\* get_servers_from_url): the stop flag reads unset and the fetch returns.
FetchGitHub(list) ==
    /\ dpc = "github"
    /\ ~stop
    /\ visited < MaxFetches
    /\ all_servers' = all_servers \o list
    /\ visited' = visited + 1
    /\ UNCHANGED <<pipeline, besides_discovery, dpc, use_github_search, found, ki>>

\* A Ctrl+C that leaves get_servers_from_github as an exception.
InterruptGitHubPropagating ==
    /\ dpc = "github"
    /\ ~stop
    /\ visited < MaxFetches
    /\ dpc' = "raised"
    /\ ki' = "github"
    /\ UNCHANGED <<pipeline, besides_discovery, use_github_search, all_servers, found, visited>>

\* Ctrl+C during a fetch of the GitHub search: caught around the loops, which
\* calls request_stop().
InterruptGitHub ==
    /\ dpc = "github"
    /\ ~stop
    /\ visited < MaxFetches
    /\ stop' = TRUE
    /\ ki' = "github"
    /\ UNCHANGED <<besides_discovery, pc, params, servers, i, inflight, health_results,
                   result_list, history, dpc, use_github_search, all_servers, found, visited>>

\* get_servers_from_github returns (its loops ran out or broke on the stop
\* flag) and get_all_servers merges: servers.extend(...), dict.fromkeys.
GitHubReturn ==
    /\ dpc = "github"
    /\ servers' = Dedup(found \o Dedup(all_servers))
    /\ all_servers' = <<>>
    /\ visited' = 0
    /\ dpc' = "done"
    /\ pc' = "precheck"
    /\ UNCHANGED <<besides_discovery, stop, params, i, inflight, health_results,
                   result_list, history, use_github_search, found, ki>>

NextDiscover ==
    \/ \E list \in FetchResults : FetchKnown(list)
    \/ InterruptKnown
    \/ KnownReturn
    \/ \E list \in FetchResults : FetchGitHub(list)
    \/ InterruptGitHub
    \/ GitHubReturn
    \/ RequestStop
    \/ PreCheck
    \/ LoopHead
    \/ \E j \in DOMAIN task : Acquire(j)
    \/ ProbeEnds
    \/ BatchReturn
    \/ KeyboardInterrupt
    \/ Finish

SpecDiscover == InitDiscover /\ [][NextDiscover]_vars

\* Index of the first occurrence of x in list.
FirstIndex(list, x) ==
    CHOOSE k \in 1..Len(list) : list[k] = x /\ \A m \in 1..(k - 1) : list[m] # x

\* out holds every element of list once, in the order of first occurrence.
IsFirstOccurrences(out, list) ==
    /\ Range(out) = Range(list)
    /\ \A a, b \in 1..Len(out) :
          a < b => FirstIndex(list, out[a]) < FirstIndex(list, out[b])

\* C23: a KeyboardInterrupt during a fetch of get_servers_from_known_sources or
\* get_servers_from_github never leaves the operation as an exception: the flag
\* is set from then on, nothing more is fetched, and the operation returns the
\* configs collected before the interrupt, deduplicated.
C23_InterruptContained ==
    /\ [](dpc # "raised")
    /\ [](ki # "none" => stop)
    /\ [][(ki # "none" /\ dpc' = dpc) => all_servers' = all_servers]_vars
    /\ [][(ki = "known" /\ dpc = "known" /\ dpc' # "known") =>
             /\ IsFirstOccurrences(found', all_servers)
             /\ dpc' = "done"
             /\ servers' = found']_vars
    /\ [][(ki = "github" /\ dpc = "github" /\ dpc' # "github") =>
             /\ dpc' = "done"
             /\ IsFirstOccurrences(servers', found \o all_servers)]_vars

\* C23 witness: a Ctrl+C hit the GitHub search after it had fetched configs;
\* get_all_servers has returned a non-empty list and the flag is set.
C23_Witness ==
    /\ dpc = "done"
    /\ pc = "precheck"
    /\ ki = "github"
    /\ stop
    /\ \E k \in 1..Len(servers) : servers[k] \notin Range(found)

\* C24: when the GitHub search starts, the servers fetched from the known
\* sources have already been handed to check_servers.
C24_KnownCheckedBeforeGitHub ==
    dpc = "github" => \A k \in 1..Len(found) : found[k] \in Range(Flatten(calls))

\* C25: when the call returns after a KeyboardInterrupt in the GitHub search,
\* every server fetched from the known sources is in the returned list as a
\* health-checked record, and should_stop() is true.
C25_KnownCheckedAfterInterrupt ==
    (pc = "returned" /\ ki = "github") =>
        /\ stop_on_return
        /\ \A k \in 1..Len(found) :
              \E r \in 1..Len(result_list) :
                 /\ result_list[r].config = found[k]
                 /\ result_list[r].health_checked

\* C26: what get_servers_from_known_sources and get_all_servers return holds
\* every fetched config once, in the order of first occurrence across known
\* sources and GitHub results; no two records returned by
\* get_servers_with_health have the same config.
C26_NoDuplicates ==
    /\ [][(dpc = "known" /\ dpc' # "known") =>
             /\ IsFirstOccurrences(found', all_servers)
             /\ dpc' = "done" => servers' = found']_vars
    /\ [][(dpc = "github" /\ dpc' = "done") =>
             IsFirstOccurrences(servers', found \o all_servers)]_vars
    /\ [](\A a, b \in 1..Len(servers) : a # b => servers[a] # servers[b])
    /\ [](pc = "returned" =>
            \A a, b \in 1..Len(result_list) :
               a # b => result_list[a].config # result_list[b].config)

\* C26 witness: the GitHub search delivered again a config the known sources
\* had delivered, next to a new one, and the call returned one record for each.
C26_Witness ==
    /\ pc = "returned"
    /\ use_github_search
    /\ ki = "none"
    /\ found = <<Config(2, "target"), Config(1, "target")>>
    /\ Len(servers) = 3
    /\ Len(result_list) = 3

\* ------------------------------------------------------------------------
\* cli.py: presenting the records get_servers_with_health returned
\* ------------------------------------------------------------------------
\* dict.get(field, default): the default only when the key is absent.
Get(record, field, default) ==
    IF field \in DOMAIN record THEN record[field] ELSE default

\* print_stats(servers, show_health) on a list of dict records: "printed" when
\* it returns, "TypeError" when summing the latencies of the Healthy records
\* adds None to a number.
print_stats(records, show_health) ==
    IF records = <<>> THEN "printed"
    ELSE IF ~show_health THEN "printed"
    ELSE LET healthy == {k \in 1..Len(records) :
                            Get(records[k], "health_status", "none") = "healthy"}
         IN  IF healthy = {} THEN "printed"
             ELSE IF \E k \in healthy : Get(records[k], "latency_ms", 0) = None
                  THEN "TypeError"
             ELSE "printed"

\* The "top 10 by quality" listing of the interactive menu: "TypeError" when
\* a latency of None is formatted with 6.1f.
top_listing(records) ==
    IF \E k \in 1..Min(10, Len(records)) : Get(records[k], "latency_ms", 0) = None
    THEN "TypeError"
    ELSE "printed"

\* The configs an unchecked list is made of.
RECURSIVE ConfigLists(_)
ConfigLists(n) ==
    IF n = 0 THEN {<<>>}
    ELSE {Append(ss, Config(n, kind)) : ss \in ConfigLists(n - 1), kind \in Kinds}

\* The lists get_servers_with_health returns: the records of a filtered and
\* sorted health list, or unchecked records when it was stopped before checking.
ReturnedLists ==
    {Convert(sort_by_quality(filter_healthy_servers(
         in.health_results, in.min_quality_score, in.exclude_unreachable))) :
         in \in FilterInputs}
    \cup {Unchecked(ss) : ss \in UNION {ConfigLists(n) : n \in 0..MaxResults}}

InitPrint ==
    /\ DiscoveryIdle
    /\ CliIdle
    /\ StoreIdle
    /\ PipelineIdle
    /\ ItemIdle
    /\ input \in [servers : ReturnedLists, show_health : BOOLEAN]
    /\ output = NotCalled

\* print_stats on the list, then the top-10 listing of the same list.
ApplyPrintStats ==
    /\ ~output.called
    /\ output' = Returned([stats |-> print_stats(input.servers, input.show_health),
                           top |-> top_listing(input.servers)])
    /\ UNCHANGED <<besides_pure, input>>

NextPrint == ApplyPrintStats

SpecPrint == InitPrint /\ [][NextPrint]_vars

\* C29: print_stats with the health display, and the top-10 listing, return
\* without raising on every record list get_servers_with_health can return,
\* Healthy records without a latency included.
C29_PresentationNeverRaises ==
    output.called =>
        /\ output.value.stats # "TypeError"
        /\ output.value.top # "TypeError"

\* ------------------------------------------------------------------------
\* cli.py: the non-interactive main() and its StopController
\* ------------------------------------------------------------------------
\* The characters typed at the listener that matter: the stop letter in both
\* cases, whitespace, and any other character.
Keys == {"q", "Q", " ", "x"}

RECURSIVE LinesOfLen(_)
LinesOfLen(n) ==
    IF n = 0 THEN {<<>>}
    ELSE {Append(l, c) : l \in LinesOfLen(n - 1), c \in Keys}

\* The lines input() can return (the newline is not part of them).
Lines == UNION {LinesOfLen(n) : n \in 0..MaxLine}
\* What `key` holds after input() raised EOFError.
EndOfFile == <<"EOF">>

RECURSIVE lstrip(_)
lstrip(line) ==
    IF line # <<>> /\ Head(line) = " " THEN lstrip(Tail(line)) ELSE line

RECURSIVE rstrip(_)
rstrip(line) ==
    IF line # <<>> /\ line[Len(line)] = " "
    THEN rstrip(SubSeq(line, 1, Len(line) - 1))
    ELSE line

\* str.strip(): leading and trailing whitespace removed.
strip(line) == rstrip(lstrip(line))

\* A comparison that is case-sensitive.
lower_not_at_all(line) == line

\* str.lower().
lower(line) == [k \in 1..Len(line) |-> IF line[k] = "Q" THEN "q" ELSE line[k]]

\* The lists the fetch of main() can return.  With --check-health it is
\* get_servers_with_health(filter_unhealthy=True): records of Healthy and
\* Degraded servers, or unchecked records when it was stopped before checking
\* (only then).  Without it, get_all_servers: config strings.
Fetchable(with_health, stopped) ==
    IF with_health
    THEN {<<>>,
          Convert(<<ServerHealth(Config(1, "target"), "healthy", 50, "none", "none")>>),
          Convert(<<ServerHealth(Config(1, "notarget"), "healthy", None, "none", "none")>>),
          Convert(<<ServerHealth(Config(1, "target"), "healthy", 50, "none", "none"),
                    ServerHealth(Config(2, "target"), "degraded", 600, "none", "none")>>)}
         \cup (IF stopped THEN {Unchecked(<<Config(1, "target")>>)} ELSE {})
    ELSE {<<>>, <<Config(1, "target")>>, <<Config(1, "target"), Config(2, "notarget")>>}

\* main() has parsed its arguments and built the finder and the controller;
\* the finder's flag may be left set by an earlier operation.
InitCli ==
    /\ DiscoveryIdle
    /\ StoreIdle
    /\ ItemIdle
    /\ PureIdle
    /\ pc = "idle"
    /\ stop \in BOOLEAN
    /\ health_batch_size = 1
    /\ concurrent_limit = 1
    /\ min_quality_score = 0
    /\ filter_unhealthy = TRUE
    /\ check_health \in BOOLEAN
    /\ servers = <<>>
    /\ i = 0
    /\ batch = <<>>
    /\ task = <<>>
    /\ results = <<>>
    /\ health_results = <<>>
    /\ result_list = <<>>
    /\ calls = <<>>
    /\ returned = <<>>
    /\ raised = <<>>
    /\ interrupted = 0
    /\ stopBatch = 0
    /\ stop_on_return = FALSE
    /\ mpc = "start"
    /\ lpc = "none"
    /\ active = FALSE
    /\ key = <<>>
    /\ exit_status = None
    /\ saved = NotCalled
    /\ partial_servers = <<>>

\* A start() that leaves the finder's flag as it finds it.
CtrlStartKeepingStop ==
    /\ mpc = "start"
    /\ active' = TRUE
    /\ lpc' = "loop"
    /\ mpc' = "fetch"
    /\ UNCHANGED <<besides_cli, stop, result_list, key, exit_status, saved, partial_servers>>

\* ctrl.start(): reset_stop(), _active.set(), then the listener thread starts.
CtrlStart ==
    /\ mpc = "start"
    /\ stop' = FALSE
    /\ active' = TRUE
    /\ lpc' = "loop"
    /\ mpc' = "fetch"
    /\ UNCHANGED <<besides_cli, result_list, key, exit_status, saved, partial_servers>>

\* The fetch returns; partial_servers = servers.  result_list records what it
\* returned.
FetchReturns(list) ==
    /\ mpc = "fetch"
    /\ list \in Fetchable(check_health, stop)
    /\ result_list' = list
    /\ partial_servers' = list
    /\ mpc' = "finally"
    /\ UNCHANGED <<besides_cli, stop, lpc, active, key, exit_status, saved>>

\* A KeyboardInterrupt hits inside the fetch, where core handles it: the flag
\* is set and the fetch returns what it has.
FetchInterrupted(list) ==
    /\ mpc = "fetch"
    /\ list \in Fetchable(check_health, TRUE)
    /\ stop' = TRUE
    /\ result_list' = list
    /\ partial_servers' = list
    /\ mpc' = "finally"
    /\ UNCHANGED <<besides_cli, lpc, active, key, exit_status, saved>>

\* A KeyboardInterrupt escapes the fetch: request_stop(), servers = partial_servers.
FetchEscapes ==
    /\ mpc = "fetch"
    /\ stop' = TRUE
    /\ mpc' = "finally"
    /\ UNCHANGED <<besides_cli, result_list, lpc, active, key, exit_status, saved,
                   partial_servers>>

\* Any other exception escapes the fetch: ctrl.stop() and sys.exit(1);
\* partial_servers is still empty, so nothing is saved.
FetchRaises ==
    /\ mpc = "fetch"
    /\ active' = FALSE
    /\ exit_status' = 1
    /\ mpc' = "exited"
    /\ UNCHANGED <<besides_cli, stop, result_list, lpc, key, saved, partial_servers>>

\* finally: ctrl.stop().
Finally ==
    /\ mpc = "finally"
    /\ active' = FALSE
    /\ mpc' = "check"
    /\ UNCHANGED <<besides_cli, stop, result_list, lpc, key, exit_status, saved,
                   partial_servers>>

\* should_stop() is true: save_partial_results and print_stats when there are
\* partial results, then sys.exit(130).  An exception raised by print_stats
\* ends the process with status 1 before sys.exit is reached.
StoppedEarly ==
    /\ mpc = "check"
    /\ stop
    /\ saved' = IF partial_servers # <<>> THEN Returned(partial_servers) ELSE saved
    /\ exit_status' = IF /\ partial_servers # <<>>
                         /\ print_stats(partial_servers, check_health) = "TypeError"
                      THEN 1 ELSE 130
    /\ mpc' = "exited"
    /\ UNCHANGED <<besides_cli, stop, result_list, lpc, active, key, partial_servers>>

\* should_stop() is false: --stats-only prints the statistics, otherwise the
\* servers are written to --output; main() returns (status 0) unless
\* print_stats raises or the file cannot be written (status 1).
NormalCompletion ==
    /\ mpc = "check"
    /\ ~stop
    /\ \E stats_only \in BOOLEAN, written \in BOOLEAN :
          exit_status' = IF stats_only
                         THEN (IF print_stats(partial_servers, check_health) = "TypeError"
                               THEN 1 ELSE 0)
                         ELSE (IF written THEN 0 ELSE 1)
    /\ mpc' = "exited"
    /\ UNCHANGED <<besides_cli, stop, result_list, lpc, active, key, saved,
                   partial_servers>>

\* StopController._listen, the loop condition.  The thread is a daemon: it
\* takes no step once the process has exited.
ListenerLoop ==
    /\ mpc # "exited"
    /\ lpc = "loop"
    /\ lpc' = IF active THEN "input" ELSE "ended"
    /\ UNCHANGED <<besides_cli, stop, result_list, mpc, active, key, exit_status, saved,
                   partial_servers>>

\* input() returns a line: on "q" after strip().lower(), request_stop(),
\* _active.clear() and break; on anything else, back to the loop condition.
ReadLine(line) ==
    /\ mpc # "exited"
    /\ lpc = "input"
    /\ key' = line
    /\ IF lower(strip(line)) = <<"q">>
       THEN /\ stop' = TRUE
            /\ active' = FALSE
            /\ lpc' = "ended"
       ELSE /\ lpc' = "loop"
            /\ UNCHANGED <<stop, active>>
    /\ UNCHANGED <<besides_cli, result_list, mpc, exit_status, saved, partial_servers>>

\* input() raises EOFError: _active.clear() and break.
ReadEOF ==
    /\ mpc # "exited"
    /\ lpc = "input"
    /\ key' = EndOfFile
    /\ active' = FALSE
    /\ lpc' = "ended"
    /\ UNCHANGED <<besides_cli, stop, result_list, mpc, exit_status, saved,
                   partial_servers>>

NextCli ==
    \/ CtrlStart
    \/ \E list \in Fetchable(TRUE, TRUE) \cup Fetchable(FALSE, TRUE) : FetchReturns(list)
    \/ \E list \in Fetchable(TRUE, TRUE) \cup Fetchable(FALSE, TRUE) : FetchInterrupted(list)
    \/ FetchEscapes
    \/ FetchRaises
    \/ Finally
    \/ StoppedEarly
    \/ NormalCompletion
    \/ ListenerLoop
    \/ \E line \in Lines : ReadLine(line)
    \/ ReadEOF

SpecCli == InitCli /\ [][NextCli]_vars

\* C27: main() exits with status 130 exactly when should_stop() is true at the
\* check after the fetch; when it is, and the fetch returned a non-empty list,
\* save_partial_results has been called with exactly that list.
C27_Exit130IffStopped ==
    [][mpc = "check" /\ mpc' = "exited" =>
          /\ exit_status' = 130 <=> stop
          /\ stop /\ result_list # <<>> => saved' = Returned(result_list)]_vars

\* The line is the stop letter, in either case, between runs of blanks.
IsStopLine(line) ==
    \E k \in 1..Len(line) :
        /\ line[k] \in {"q", "Q"}
        /\ \A j \in 1..Len(line) : j # k => line[j] = " "

\* C28: the flag is clear when the listener starts; the listener sets it and
\* deactivates itself exactly when the line it read is the stop letter after
\* trimming and lower-casing; on any other line it leaves the flag alone and
\* keeps listening; on end of input it deactivates itself and leaves the flag
\* alone.
C28_ListenerStopsOnQ ==
    [][/\ lpc = "none" /\ lpc' # "none" => ~stop'
       /\ lpc = "input" /\ lpc' # "input" =>
             IF key' = EndOfFile
             THEN stop' = stop /\ ~active' /\ lpc' = "ended"
             ELSE IF IsStopLine(key')
             THEN stop' /\ ~active' /\ lpc' = "ended"
             ELSE stop' = stop /\ active' = active /\ lpc' = "loop"]_vars

\* The listener read " Q" or the like during the fetch and requested the stop.
C28_Witness ==
    /\ mpc = "fetch"
    /\ lpc = "ended"
    /\ Len(key) > 1
    /\ key # EndOfFile
    /\ IsStopLine(key)
    /\ "Q" \in Range(key)
    /\ stop
    /\ ~active

\* ------------------------------------------------------------------------
\* ServerValidator.validate_config: the dispatch on the scheme
\* ------------------------------------------------------------------------
\* The five prefixes validate_config tests with startswith, in its order.
Prefixes ==
    <<[protocol |-> "vmess", prefix |-> <<"v", "m", "e", "s", "s", ":", "/", "/">>],
      [protocol |-> "vless", prefix |-> <<"v", "l", "e", "s", "s", ":", "/", "/">>],
      [protocol |-> "trojan", prefix |-> <<"t", "r", "o", "j", "a", "n", ":", "/", "/">>],
      [protocol |-> "ss", prefix |-> <<"s", "s", ":", "/", "/">>],
      [protocol |-> "ssr", prefix |-> <<"s", "s", "r", ":", "/", "/">>]>>

\* str.startswith(prefix).
StartsWith(text, prefix) ==
    /\ Len(text) >= Len(prefix)
    /\ SubSeq(text, 1, Len(prefix)) = prefix

\* Beginnings of a config: the five prefixes, the same in another case, cut
\* short or lengthened, another scheme, and no scheme at all.
Heads ==
    {<<"v", "m", "e", "s", "s", ":", "/", "/">>,
     <<"v", "l", "e", "s", "s", ":", "/", "/">>,
     <<"t", "r", "o", "j", "a", "n", ":", "/", "/">>,
     <<"s", "s", ":", "/", "/">>,
     <<"s", "s", "r", ":", "/", "/">>,
     <<"V", "M", "E", "S", "S", ":", "/", "/">>,
     <<"S", "s", ":", "/", "/">>,
     <<"s", "s", ":", "/">>,
     <<"s", ":", "/", "/">>,
     <<"s", "s", "s", ":", "/", "/">>,
     <<"h", "t", "t", "p", ":", "/", "/">>,
     <<"v", "m", "e", "s", "s", ":">>,
     <<":", "/", "/">>,
     <<>>}

\* config strings: blanks or none, a beginning, a short rest, blanks or none.
Blanks == {<<>>, <<" ">>}
Configs ==
    {lead \o head \o rest \o trail :
        lead \in Blanks, head \in Heads,
        rest \in TextsOfLen(0) \cup TextsOfLen(1) \cup TextsOfLen(2), trail \in Blanks}

\* A dispatch on the config as handed in, without config.strip().
branch_without_strip(config) ==
    LET hits == {k \in DOMAIN Prefixes : StartsWith(config, Prefixes[k].prefix)}
    IN  IF hits = {} THEN "unknown"
        ELSE Prefixes[CHOOSE k \in hits : \A m \in hits : k <= m].protocol

\* The branch of validate_config's if/elif chain that config takes, "unknown"
\* for the final else.
branch(config) ==
    LET stripped == strip(config)
        hits == {k \in DOMAIN Prefixes : StartsWith(stripped, Prefixes[k].prefix)}
    IN  IF hits = {} THEN "unknown"
        ELSE Prefixes[CHOOSE k \in hits : \A m \in hits : k <= m].protocol

InitDispatch ==
    /\ DiscoveryIdle
    /\ CliIdle
    /\ StoreIdle
    /\ PipelineIdle
    /\ ItemIdle
    /\ input \in Configs
    /\ output = NotCalled

\* validate_config up to the branch it takes; the final else returns
\* (False, "Unknown protocol", None, None).
ApplyDispatch ==
    /\ ~output.called
    /\ output' = Returned(branch(input))
    /\ UNCHANGED <<besides_pure, input>>

NextDispatch == ApplyDispatch

SpecDispatch == InitDispatch /\ [][NextDispatch]_vars

\* The config as written begins with one of the five prefixes.
BeginsWithPrefix(config) ==
    \E k \in DOMAIN Prefixes : StartsWith(config, Prefixes[k].prefix)

\* The same, blanks at its start left aside.
BeginsWithPrefixAfterBlanks(config) ==
    \E n \in 0..Len(config) :
        /\ \A k \in 1..n : config[k] = " "
        /\ BeginsWithPrefix(SubSeq(config, n + 1, Len(config)))

\* C31 as stated: every config that does not begin with one of the five
\* prefixes yields "Unknown protocol".
C31_UnknownUnlessPrefix ==
    output.called /\ ~BeginsWithPrefix(input) => output.value = "unknown"

\* C31: validate_config yields "Unknown protocol" exactly for the configs
\* that, blanks at their start left aside, do not begin with one of the five
\* prefixes, compared case-sensitively.
C31_UnknownUnlessPrefixAfterBlanks ==
    output.called =>
        (output.value = "unknown" <=> ~BeginsWithPrefixAfterBlanks(input))

\* A config with a blank before its scheme was dispatched on the scheme.
C31_Witness ==
    /\ output.called
    /\ input # <<>>
    /\ Head(input) = " "
    /\ output.value = "ssr"

\* C38: a Healthy record for a vmess, vless, trojan or ss config (the configs
\* whose validation carries a port; ssr carries none) results from a TCP
\* connect that succeeded and has a latency.
C38_HealthyOnlyAfterConnect ==
    (ipc = "done" /\ health.status = "healthy" /\ validation.port # None) =>
        /\ connected
        /\ health.latency_ms # None

\* The class a status ranks in: reached servers, then unreachable, then invalid.
RankOf(status) ==
    IF status \in {"healthy", "degraded"} THEN 2
    ELSE IF status = "unreachable" THEN 1
    ELSE 0

C37_NoStopAfterControllerStop ==
    [][mpc = "check" => stop' = stop]_vars

\* C39: while the stop flag is set no fetch is made and nothing is added to
\* the collected servers; get_servers_from_known_sources then returns what was
\* collected before (nothing, when the flag was set from the start) and
\* get_all_servers returns it without starting the GitHub search.
C39_NoFetchWhileStopped ==
    /\ [][stop => visited' <= visited]_vars
    /\ [][(stop /\ dpc' = dpc) => all_servers' = all_servers]_vars
    /\ [][(stop /\ dpc = "known" /\ dpc' # "known") =>
             /\ dpc' = "done"
             /\ IsFirstOccurrences(servers', all_servers)]_vars
    /\ [][(stop /\ dpc = "github" /\ dpc' # "github") =>
             /\ dpc' = "done"
             /\ IsFirstOccurrences(servers', found \o all_servers)]_vars

\* C39 witness: get_all_servers(use_github_search=True) was entered with the
\* flag set by request_stop() and returned the empty list.
C39_Witness ==
    /\ dpc = "done"
    /\ stop
    /\ ki = "none"
    /\ use_github_search
    /\ servers = <<>>
    /\ found = <<>>

\* ------------------------------------------------------------------------
\* cache.py: MemoryCache, and CacheManager in front of it
\* ------------------------------------------------------------------------
CacheKeys == {"a", "b", "c"}
CacheValues == {"v", "w"}
\* Times to live handed to set, in seconds; None for the argument left out.
Ttls == {None, 0, 1}
\* max_size of the MemoryCache.
Sizes == {1, 2}
\* The default time to live a CacheManager is constructed with (ttl=...).
DefaultTtls == {0, 2}

\* An entry of _cache: key -> (value, expiry).  ttl and set_at are history:
\* the time to live the entry was stored with, and when.
Entry(k, value, expiry, ttl) ==
    [key |-> k, value |-> value, expiry |-> expiry, ttl |-> ttl, set_at |-> now]

KeysOf(entries) == {entries[n].key : n \in DOMAIN entries}
IndexOf(entries, k) == CHOOSE n \in DOMAIN entries : entries[n].key = k
Without(entries, k) == SelectSeq(entries, LAMBDA e : e.key # k)

\* One recorded operation: what it was called with, what it returned, and the
\* key it evicted ("none" if none).
Op(name, k, value, result, evicted) ==
    [op |-> name, key |-> k, value |-> value, result |-> result, evicted |-> evicted]

InitCache ==
    /\ DiscoveryIdle
    /\ CliIdle
    /\ PipelineIdle
    /\ ItemIdle
    /\ input \in [max_size : Sizes, ttl : DefaultTtls]
    /\ output = NotCalled
    /\ cache = <<>>
    /\ now = 0
    /\ trace = <<>>
    /\ fetches = <<>>

\* An expiry computed from every ttl that is given, 0 included.
expiry_of_any_ttl(ttl) == IF ttl # None THEN now + ttl ELSE None

\* expiry = (time.time() + ttl) if ttl else None
expiry_of(ttl) == IF ttl \notin {None, 0} THEN now + ttl ELSE None

\* A set that never evicts.
StoredWithoutEviction(k, value, ttl) ==
    LET entry == Entry(k, value, expiry_of(ttl), ttl)
    IN  IF k \in KeysOf(cache)
        THEN [cache EXCEPT ![IndexOf(cache, k)] = entry]
        ELSE Append(cache, entry)

\* _cache after MemoryCache.set(k, value, ttl): the first key of the dict is
\* deleted when the cache is full and k is new; assigning to a key that is
\* present keeps its place in the dict.
Stored(k, value, ttl) ==
    LET full == Len(cache) >= input.max_size /\ k \notin KeysOf(cache)
        kept == IF full THEN Tail(cache) ELSE cache
        entry == Entry(k, value, expiry_of(ttl), ttl)
    IN  IF k \in KeysOf(kept)
        THEN [kept EXCEPT ![IndexOf(kept, k)] = entry]
        ELSE Append(kept, entry)

\* MemoryCache.set(k, value, ttl).
MemorySet(k, value, ttl) ==
    /\ cache' = Stored(k, value, ttl)
    /\ trace' = <<Op("set", k, value, "True",
                     IF Len(cache) >= input.max_size /\ k \notin KeysOf(cache)
                     THEN Head(cache).key ELSE "none")>>
    /\ UNCHANGED <<besides_store, now, fetches>>

\* CacheManager.set(k, value, ttl): the default ttl when none is given.
ManagerSet(k, value, ttl) ==
    MemorySet(k, value, IF ttl # None THEN ttl ELSE input.ttl)

\* The entry of k has no expiry, or its expiry lies ahead.
Live(k) ==
    /\ k \in KeysOf(cache)
    /\ LET e == cache[IndexOf(cache, k)] IN e.expiry = None \/ e.expiry > now

\* What MemoryCache.get(k) returns: the value of a live entry, else None.
Got(k) == IF Live(k) THEN cache[IndexOf(cache, k)].value ELSE "None"

\* MemoryCache.get(k) (CacheManager.get passes it on): the value while the
\* entry has no expiry or its expiry lies ahead; an expired entry is deleted.
MemoryGet(k) ==
    /\ trace' = <<Op("get", k, "none", Got(k), "none")>>
    /\ cache' = IF k \in KeysOf(cache) /\ ~Live(k) THEN Without(cache, k) ELSE cache
    /\ UNCHANGED <<besides_store, now, fetches>>

\* MemoryCache.delete(k).
MemoryDelete(k) ==
    /\ cache' = Without(cache, k)
    /\ trace' = <<Op("delete", k, "none", IF k \in KeysOf(cache) THEN "True" ELSE "False", "none")>>
    /\ UNCHANGED <<besides_store, now, fetches>>

\* MemoryCache.clear().
MemoryClear ==
    /\ cache' = <<>>
    /\ trace' = <<Op("clear", "none", "none", "True", "none")>>
    /\ UNCHANGED <<besides_store, now, fetches>>

\* A second passes.
Tick ==
    /\ now < MaxTime
    /\ now' = now + 1
    /\ UNCHANGED <<besides_store, cache, trace, fetches>>

NextCache ==
    \/ \E k \in CacheKeys, value \in CacheValues, ttl \in Ttls : MemorySet(k, value, ttl)
    \/ \E k \in CacheKeys, value \in CacheValues, ttl \in Ttls : ManagerSet(k, value, ttl)
    \/ \E k \in CacheKeys : MemoryGet(k)
    \/ \E k \in CacheKeys : MemoryDelete(k)
    \/ MemoryClear
    \/ Tick

SpecCache == InitCache /\ [][NextCache]_vars

\* The keys of the entries, in insertion order.
KeySeq(entries) == [n \in DOMAIN entries |-> entries[n].key]

\* The step is the operation the trace records after it (a Tick leaves the
\* trace alone and moves the clock).
IsStep(name) == now' = now /\ trace' # <<>> /\ trace'[1].op = name

\* C34: the cache never holds more than max_size entries; a set of a new key
\* into a full cache evicts the earliest-inserted key and no other; a set of a
\* key that is present replaces its value, keeps the keys and evicts nothing.
C34_BoundedFifo ==
    /\ [](Len(cache) <= input.max_size)
    /\ [][IsStep("set") =>
             LET k == trace'[1].key
             IN  /\ k \in KeysOf(cache')
                 /\ cache'[IndexOf(cache', k)].value = trace'[1].value
                 /\ IF k \in KeysOf(cache)
                    THEN /\ KeySeq(cache') = KeySeq(cache)
                         /\ trace'[1].evicted = "none"
                    ELSE IF Len(cache) >= input.max_size
                    THEN /\ KeySeq(cache') = Append(Tail(KeySeq(cache)), k)
                         /\ trace'[1].evicted = Head(cache).key
                    ELSE /\ KeySeq(cache') = Append(KeySeq(cache), k)
                         /\ trace'[1].evicted = "none"]_vars

\* C34 witness: a full cache of two entries whose first key was set again
\* before a third key evicted it.
C34_Witness ==
    /\ input.max_size = 2
    /\ Len(cache) = 2
    /\ trace # <<>>
    /\ trace[1].op = "set"
    /\ trace[1].evicted = "a"
    /\ cache[1].key = "b"
    /\ cache[1].set_at = 0
    /\ cache[2].set_at = 2

\* C36: get returns an entry stored with a time to live of t seconds, t >= 0,
\* exactly while fewer than t seconds have passed since the set, and None
\* afterwards; an entry stored with no time to live is always returned.
C36_ReturnedWhileFresh ==
    [][IsStep("get") =>
          LET k == trace'[1].key
          IN  IF k \notin KeysOf(cache) THEN trace'[1].result = "None"
              ELSE LET e == cache[IndexOf(cache, k)]
                   IN  IF e.ttl = None \/ now - e.set_at < e.ttl
                       THEN trace'[1].result = e.value
                       ELSE trace'[1].result = "None"]_vars

\* ---------------------------------------------------------------------------
\* SpecCached: a function wrapped by CacheManager.cached(key_prefix), called
\* with arguments drawn from a small set.  trace holds one record per call of
\* the wrapper.  The clock stands still and the cache is larger than the
\* number of calls, so no entry expires or is evicted.
\* ---------------------------------------------------------------------------

\* The most calls of the wrapper in one behaviour.
MaxCalls == 2

\* An argument: its Python type and its str().
Arg(type, text) == [type |-> type, text |-> text]

\* 1, "1", "a" and "a|a".
ArgValues ==
    { Arg("int", <<"1">>), Arg("str", <<"1">>),
      Arg("str", <<"a">>), Arg("str", <<"a", "|", "a">>) }

\* The positional arguments of one call: one or two values.
ArgLists == { <<a>> : a \in ArgValues } \cup { <<a, b>> : a \in ArgValues, b \in ArgValues }

\* What the wrapped function may return.
Returns == {"v", "w", "None"}

\* key_prefix of the decorator.
key_prefix == <<"p">>

\* "|".join(parts)
RECURSIVE join(_)
join(parts) ==
    IF Len(parts) = 0 THEN <<>>
    ELSE IF Len(parts) = 1 THEN parts[1]
    ELSE parts[1] \o <<"|">> \o join(Tail(parts))

\* _make_key(prefix, *args): the digest of prefix and str(arg) of every
\* argument joined by "|".  The digest is taken to be free of collisions, so
\* the joined text stands for it.
make_key(prefix, args) == join(<<prefix>> \o [n \in DOMAIN args |-> args[n].text])

\* One call of the wrapper: its arguments, whether the wrapped function was
\* invoked, and what the wrapper returned.
WrapperCall(args, invoked, value) == [args |-> args, invoked |-> invoked, returned |-> value]

InitCached ==
    /\ DiscoveryIdle
    /\ CliIdle
    /\ PipelineIdle
    /\ ItemIdle
    /\ input = [max_size |-> 1000, ttl |-> 3600]
    /\ output = NotCalled
    /\ cache = <<>>
    /\ now = 0
    /\ trace = <<>>
    /\ fetches = <<>>

\* wrapper(*args): the cached value unless it is None; else the function is
\* invoked (returning result) and its result is stored under the key with the
\* manager's default ttl.
Wrapper(args, result) ==
    /\ Len(trace) < MaxCalls
    /\ LET cache_key == make_key(key_prefix, args)
           cached_value == Got(cache_key)
       IN  IF cached_value # "None"
           THEN /\ trace' = Append(trace, WrapperCall(args, FALSE, cached_value))
                /\ cache' = cache
           ELSE /\ trace' = Append(trace, WrapperCall(args, TRUE, result))
                /\ cache' = Stored(cache_key, result, input.ttl)
    /\ UNCHANGED <<besides_store, now, fetches>>

NextCached == \E args \in ArgLists, result \in Returns : Wrapper(args, result)

SpecCached == InitCached /\ [][NextCached]_vars

\* C35: a call of the wrapper whose arguments were used by an earlier call
\* does not invoke the function and returns what that call returned, whatever
\* the value; a call whose arguments no earlier call used invokes the function.
C35_SecondCallFromCache ==
    \A j \in DOMAIN trace :
        LET earlier == { n \in 1..(j - 1) : trace[n].args = trace[j].args }
        IN  IF earlier # {}
            THEN /\ ~trace[j].invoked
                 /\ \A n \in earlier : trace[j].returned = trace[n].returned
            ELSE trace[j].invoked

\* ---------------------------------------------------------------------------
\* SpecFetch: AsyncFetcher.fetch_many_async / fetch_many on a list of URLs.
\* input holds the constructor's max_retries and retry_delay, the backend the
\* imports selected, the method called and its urls; fetches holds one fetch
\* task per URL; output is what the method returned or raised.
\* ---------------------------------------------------------------------------

\* The largest max_retries a fetcher is constructed with.
MaxRetries == 3

\* urls: none, one, two, and one URL twice.
UrlLists == { <<>>, <<"u">>, <<"u", "v">>, <<"u", "u">> }

\* self.backend, chosen by which of aiohttp and httpx could be imported.
Backends == {"aiohttp", "httpx", "sync"}

EntryPoints == {"fetch_many_async", "fetch_many"}

\* retry_delay, in seconds.
Delays == {1, 3}

\* How one attempt ends: a response with a status, a timeout, a client error
\* (aiohttp.ClientError, httpx.HTTPError), or some other exception.
Outcomes == {"200", "429", "403", "500", "Timeout", "ClientError", "Exception"}

\* Retried while attempts are left, rate limits included.
RetriableWithRateLimit == {"429", "500", "Timeout", "ClientError"}

\* Retried while attempts are left.
Retriable == {"500", "Timeout", "ClientError"}

RECURSIVE Pow2(_)
Pow2(n) == IF n = 0 THEN 1 ELSE 2 * Pow2(n - 1)

\* self.retry_delay * (2**attempt)
backoff(attempt) == input.retry_delay * Pow2(attempt)

FetchResult(url, status_code, success, error) ==
    [url |-> url, status_code |-> status_code, success |-> success, error |-> error]

\* No FetchResult yet.
NotFetched == FetchResult("none", "None", FALSE, "pending")

\* The coroutine fetching one URL: the outcomes of its attempts so far, the
\* delays it slept, and its FetchResult once it returned.
Task(url) == [url |-> url, pc |-> "attempt", outcomes |-> <<>>, slept |-> <<>>, result |-> NotFetched]

\* The method raised.
Raises(name) == [called |-> TRUE, value |-> <<>>, raised |-> name]

InitFetch ==
    /\ DiscoveryIdle
    /\ CliIdle
    /\ PipelineIdle
    /\ ItemIdle
    /\ input \in [urls : UrlLists, max_retries : 0..MaxRetries, retry_delay : Delays,
                  backend : Backends, entry : EntryPoints]
    /\ output = NotCalled
    /\ cache = <<>>
    /\ now = 0
    /\ trace = <<>>
    /\ fetches = <<>>

\* The call begins.  fetch_many_async returns [] for no urls, raises
\* RuntimeError without an async library, else creates one task per URL.
\* fetch_many with the sync backend loops over the urls itself, else it runs
\* fetch_many_async.
StartFetchMany ==
    /\ ~output.called
    /\ fetches = <<>>
    /\ IF input.backend = "sync" /\ input.entry = "fetch_many"
       THEN IF input.urls = <<>>
            THEN output' = Returned(<<>>) /\ fetches' = fetches
            ELSE output' = output /\ fetches' = [n \in DOMAIN input.urls |-> Task(input.urls[n])]
       ELSE IF input.urls = <<>>
            THEN output' = Returned(<<>>) /\ fetches' = fetches
            ELSE IF input.backend = "sync"
            THEN output' = Raises("RuntimeError") /\ fetches' = fetches
            ELSE output' = output /\ fetches' = [n \in DOMAIN input.urls |-> Task(input.urls[n])]
    /\ UNCHANGED <<pipeline, item, input, discovery, cli, store>>

\* The FetchResult of an attempt that ends the loop.
result_of(url, outcome) ==
    IF outcome = "200" THEN FetchResult(url, "200", TRUE, "None")
    ELSE IF outcome \in {"429", "403"} THEN FetchResult(url, outcome, FALSE, "Rate limit")
    ELSE IF outcome = "500" THEN FetchResult(url, "500", FALSE, "HTTP")
    ELSE IF outcome = "Timeout" THEN FetchResult(url, "None", FALSE, "Timeout")
    ELSE FetchResult(url, "None", FALSE, "str(e)")

\* One pass of "for attempt in range(self.max_retries)" in the task of url n,
\* the sleep before the next pass included.
Attempt(n, outcome) ==
    /\ input.backend # "sync"
    /\ n \in DOMAIN fetches
    /\ fetches[n].pc = "attempt"
    /\ LET t == fetches[n]
           attempt == Len(t.outcomes)
       IN  /\ attempt < input.max_retries
           /\ fetches' =
                IF outcome \in Retriable /\ attempt < input.max_retries - 1
                THEN [fetches EXCEPT ![n] =
                        [t EXCEPT !.outcomes = Append(t.outcomes, outcome),
                                  !.slept = Append(t.slept, backoff(attempt))]]
                ELSE [fetches EXCEPT ![n] =
                        [t EXCEPT !.outcomes = Append(t.outcomes, outcome),
                                  !.pc = "done",
                                  !.result = result_of(t.url, outcome)]]
    /\ UNCHANGED <<besides_store, store>>

\* The loop made no pass at all (max_retries = 0): "Max retries exceeded".
RetriesExceeded(n) ==
    /\ input.backend # "sync"
    /\ n \in DOMAIN fetches
    /\ fetches[n].pc = "attempt"
    /\ Len(fetches[n].outcomes) >= input.max_retries
    /\ fetches' = [fetches EXCEPT ![n] =
                      [@ EXCEPT !.pc = "done",
                                !.result = FetchResult(fetches[n].url, "None", FALSE, "Max retries exceeded")]]
    /\ UNCHANGED <<besides_store, store>>

\* An exception leaves the coroutine (raised outside the try, or inside one
\* of its handlers): gather hands it back in place of the result.
TaskRaises(n) ==
    /\ input.backend # "sync"
    /\ n \in DOMAIN fetches
    /\ fetches[n].pc = "attempt"
    /\ fetches' = [fetches EXCEPT ![n] = [@ EXCEPT !.pc = "raised"]]
    /\ UNCHANGED <<besides_store, store>>

\* The list built from gather's results with the raised tasks left out.
processed_results_without_raised ==
    LET finished == SelectSeq(fetches, LAMBDA t : t.pc # "raised")
    IN  [n \in DOMAIN finished |-> finished[n].result]

\* The list built from gather's results: a FetchResult in place of every
\* exception.
processed_results ==
    [n \in DOMAIN fetches |->
        IF fetches[n].pc = "raised"
        THEN FetchResult(input.urls[n], "None", FALSE, "str(result)")
        ELSE fetches[n].result]

\* asyncio.gather(*tasks, return_exceptions=True) is over: the method returns.
Gather ==
    /\ input.backend # "sync"
    /\ ~output.called
    /\ fetches # <<>>
    /\ \A n \in DOMAIN fetches : fetches[n].pc \in {"done", "raised"}
    /\ output' = Returned(processed_results)
    /\ UNCHANGED <<pipeline, item, input, discovery, cli, store, fetches>>

\* The FetchResult of requests.get in the sync loop.
sync_result_of(url, outcome) ==
    IF outcome = "200" THEN FetchResult(url, "200", TRUE, "None")
    ELSE IF outcome \in {"429", "403", "500"} THEN FetchResult(url, outcome, FALSE, "HTTP")
    ELSE IF outcome = "Timeout" THEN FetchResult(url, "None", FALSE, "Timeout")
    ELSE FetchResult(url, "None", FALSE, "str(e)")

\* One pass of "for url in urls" of fetch_many with the sync backend: the
\* urls in order, one requests.get each.
SyncGet(n, outcome) ==
    /\ input.backend = "sync"
    /\ n \in DOMAIN fetches
    /\ fetches[n].pc = "attempt"
    /\ \A m \in 1..(n - 1) : fetches[m].pc = "done"
    /\ fetches' = [fetches EXCEPT ![n] =
                      [@ EXCEPT !.outcomes = <<outcome>>,
                                !.pc = "done",
                                !.result = sync_result_of(fetches[n].url, outcome)]]
    /\ UNCHANGED <<besides_store, store>>

\* The sync loop is over: return results.
SyncReturn ==
    /\ input.backend = "sync"
    /\ ~output.called
    /\ fetches # <<>>
    /\ \A n \in DOMAIN fetches : fetches[n].pc = "done"
    /\ output' = Returned([n \in DOMAIN fetches |-> fetches[n].result])
    /\ UNCHANGED <<pipeline, item, input, discovery, cli, store, fetches>>

NextFetch ==
    \/ StartFetchMany
    \/ \E n \in DOMAIN fetches, outcome \in Outcomes : Attempt(n, outcome)
    \/ \E n \in DOMAIN fetches : RetriesExceeded(n)
    \/ \E n \in DOMAIN fetches : TaskRaises(n)
    \/ Gather
    \/ \E n \in DOMAIN fetches, outcome \in Outcomes : SyncGet(n, outcome)
    \/ SyncReturn

SpecFetch == InitFetch /\ [][NextFetch]_vars

\* The fetcher runs its own retry loop (aiohttp or httpx was imported).
AsyncBackend == input.backend \in {"aiohttp", "httpx"}

\* C32: a task makes at most max_retries attempts; every attempt before the
\* last ended in a status other than 200, 429 and 403, a timeout or a client
\* error, and was followed by a sleep of retry_delay * 2^attempt; a task goes
\* on only after such an attempt; 200 ends it with success, 429 and 403 with a
\* rate-limit failure, and a retriable outcome ends it only at attempt
\* max_retries, with a failure and no sleep after it.
C32_BoundedRetriesWithBackoff ==
    AsyncBackend =>
        \A n \in DOMAIN fetches :
            LET t == fetches[n]
                made == Len(t.outcomes)
                last == t.outcomes[made]
                sleeps == IF t.pc = "done" /\ made > 0 THEN made - 1 ELSE made
            IN  /\ made <= input.max_retries
                /\ \A k \in 1..(made - 1) : t.outcomes[k] \notin {"200", "429", "403", "Exception"}
                /\ t.slept = [k \in 1..sleeps |-> input.retry_delay * Pow2(k - 1)]
                /\ (t.pc = "attempt" /\ made > 0) => last \notin {"200", "429", "403", "Exception"}
                /\ (t.pc = "done" /\ made > 0) =>
                      /\ last = "200" => t.result.success
                      /\ last \in {"429", "403"} =>
                            ~t.result.success /\ t.result.error = "Rate limit"
                      /\ last \in {"500", "Timeout", "ClientError"} =>
                            made = input.max_retries /\ ~t.result.success

\* C32 witness: with max_retries 3 and retry_delay 3 a task timed out, slept
\* 3, got a 500, slept 6, and failed on a third attempt; another stopped at a
\* 429 on its second attempt.
C32_Witness ==
    /\ AsyncBackend
    /\ input.max_retries = 3
    /\ input.retry_delay = 3
    /\ Len(fetches) = 2
    /\ fetches[1].pc = "done"
    /\ fetches[1].outcomes = <<"Timeout", "500", "ClientError">>
    /\ fetches[1].slept = <<3, 6>>
    /\ ~fetches[1].result.success
    /\ fetches[2].pc = "done"
    /\ fetches[2].outcomes = <<"500", "429">>
    /\ fetches[2].result.error = "Rate limit"

\* The method returned a list with one FetchResult per url, in the order of
\* urls, a failure for every task that raised.
OnePerUrl ==
    /\ "raised" \notin DOMAIN output
    /\ Len(output.value) = Len(input.urls)
    /\ \A n \in DOMAIN input.urls :
          /\ output.value[n].url = input.urls[n]
          /\ output.value[n].error # "pending"
          /\ (fetches[n].pc = "raised") =>
                ~output.value[n].success /\ output.value[n].error # "None"

\* C33: fetch_many_async and fetch_many return one FetchResult per url, in
\* input order, a failure for a task that raised, and [] for no urls.
C33_OneResultPerUrl == output.called => OnePerUrl

\* fetch_many_async was called on some urls with neither aiohttp nor httpx.
NoAsyncLibrary ==
    input.backend = "sync" /\ input.entry = "fetch_many_async" /\ input.urls # <<>>

\* C33 as amended: fetch_many, and fetch_many_async with aiohttp or httpx,
\* return one FetchResult per url, in input order, a failure for a task that
\* raised, and [] for no urls; fetch_many_async on a list that is not empty
\* raises RuntimeError when neither library is installed.
C33_OneResultPerUrlOrRuntimeError ==
    output.called =>
        IF NoAsyncLibrary
        THEN output = Raises("RuntimeError")
        ELSE OnePerUrl

\* C33 witness: of two urls the task of the first raised and the second was
\* fetched; the list returned holds both.
C33_Witness ==
    /\ AsyncBackend
    /\ output.called
    /\ Len(output.value) = 2
    /\ fetches[1].pc = "raised"
    /\ ~output.value[1].success
    /\ output.value[2].success
    /\ output.value[2].url = "v"
====
